---- MODULE Spec2Model ----
(***************************************************************************)
(* Production Order Analytics Engine of suivi_prod_excalibur.              *)
(*                                                                         *)
(* The state is the two source tables (gpao.OF_DA and gpao.HISTO_OF_DA),   *)
(* the reachability of the database, the fields of the shared              *)
(* ExcaliburDataAnalyzer (connection, engine, _sample_data_created) and    *)
(* the last engine call with what it returned.  Every engine method is one *)
(* action.  Requests that overlap on the shared analyzer are followed      *)
(* statement by statement in threads; the notification service is its      *)
(* record of sent notifications, the clock and the notifications delivered.*)
(*                                                                         *)
(* Numbers: SQL FLOAT / Python float values are kept as exact fractions    *)
(* <<n, d>> in lowest terms (d > 0); NaN (an SQL NULL read into a float    *)
(* column by pandas) is <<0, 0>>; a column the frame does not have is <<>>.*)
(* Dates are day numbers.  Alerte_temps is kept as a boolean on every path *)
(* (the SQL paths return 1/0, the Python path True/False).                 *)
(***************************************************************************)
EXTENDS Integers, Sequences, FiniteSets, TLC

VARIABLES ofda, histo, dbUp, connection, engine, sample_data_created, call, result,
          threads, now, sent_notifications, emails, cleaned

\* the requests running on the analyzer step by step
threadVars == <<threads>>

\* the notification service, the clock and the notifications delivered
serviceVars == <<now, sent_notifications, emails, cleaned>>

vars == <<ofda, histo, dbUp, connection, engine, sample_data_created, call, result,
          threads, now, sent_notifications, emails, cleaned>>

(***************************************************************************)
(* Bounds of the model.                                                    *)
(***************************************************************************)
\* dates of rows are day numbers 1..MaxDate (or NULL)
MaxDate == 3
\* rows of gpao.HISTO_OF_DA when the baseline is examined
MaxHistoRows == 2
\* the lower bound callers pass as date_debut (date_fin is MaxDate - 1)
LoDate == 2
\* number of rows _create_sample_data fabricates (50 in the code)
SampleSize == 1

(***************************************************************************)
(* Values.                                                                 *)
(***************************************************************************)
\* SQL NULL / Python None in a numeric or date column or argument
NULL == -1
\* SQL NULL / Python None in a string column or argument
NONE == "None"
\* NaN in a float column
NaN == <<0, 0>>
\* a column that the returned frame does not have
Absent == <<>>

RECURSIVE Gcd(_, _)
Gcd(a, b) == IF b = 0 THEN a ELSE Gcd(b, a % b)

\* the float n / d (d > 0, n >= 0)
Frac(n, d) == LET g == Gcd(n, d) IN <<n \div g, d \div g>>

IsNaN(x) == x = NaN
IsNum(x) == Len(x) = 2 /\ x[2] > 0

\* float arithmetic; anything with NaN is NaN, comparisons with NaN are false
FAdd(x, y) == IF IsNaN(x) \/ IsNaN(y) THEN NaN
              ELSE Frac(x[1] * y[2] + y[1] * x[2], x[2] * y[2])
FDiv(x, y) == IF IsNaN(x) \/ IsNaN(y) THEN NaN
              ELSE IF y[1] = 0 THEN NaN
              ELSE Frac(x[1] * y[2], x[2] * y[1])
FGt(x, y) == IsNum(x) /\ IsNum(y) /\ x[1] * y[2] > y[1] * x[2]
FLt(x, y) == FGt(y, x)
FGe(x, y) == IsNum(x) /\ IsNum(y) /\ x[1] * y[2] >= y[1] * x[2]
FLe(x, y) == FGe(y, x)
FZero == <<0, 1>>
FOne == <<1, 1>>

\* a numeric column value as pandas reads it: NULL becomes NaN
ToFloat(v) == IF v = NULL THEN NaN ELSE <<v, 1>>

(***************************************************************************)
(* The query layer: what the SQL text of each engine method selects.       *)
(***************************************************************************)
\* order numbers that match NUMERO_OFDA LIKE 'F%'
OrderNumbersF == {"F1000", "F2"}
LikeF(numero) == numero \in OrderNumbersF

\* SQL comparison col >= ? / col <= ?: never true of a NULL column
SqlGe(col, v) == col # NULL /\ col >= v
SqlLe(col, v) == col # NULL /\ col <= v
SqlGt0(col) == col # NULL /\ col > 0

\* DateWhere with the lower bound taken as exclusive (> for >=)
DateWhere_Exclusive(col, date_debut, date_fin) ==
    /\ (date_debut # NULL => (col # NULL /\ col > date_debut))
    /\ (date_fin # NULL => SqlLe(col, date_fin))

\* WHERE ... AND col >= ? AND col <= ?, each conjunct appended only for a
\* truthy argument
DateWhere(col, date_debut, date_fin) ==
    /\ (date_debut # NULL => SqlGe(col, date_debut))
    /\ (date_fin # NULL => SqlLe(col, date_fin))

\* CASE WHEN den > 0 THEN CAST(num AS FLOAT) / CAST(den AS FLOAT) ELSE 0 END
SqlRatio(num, den) ==
    IF SqlGt0(den) THEN (IF num = NULL THEN NaN ELSE Frac(num, den)) ELSE FZero

\* COALESCE(col, 'Non définie')
Coalesce(col, dflt) == IF col = NONE THEN dflt ELSE col

\* HistAvgEligible without the subquery's WHERE on quantity and time: rows
\* with nothing produced enter the average as 0
HistAvgEligible_ZeroFilled(h, produit, categorie) ==
    SelectSeq(h, LAMBDA r : r.PRODUIT = produit /\ r.CATEGORIE = categorie)

\* the rows of the hist_avg subquery's WHERE, for one GROUP BY key
HistAvgEligible(h, produit, categorie) ==
    SelectSeq(h, LAMBDA r : /\ SqlGt0(r.CUMUL_ENTREES)
                            /\ SqlGt0(r.CUMUL_TEMPS_PASSES)
                            /\ r.PRODUIT = produit
                            /\ r.CATEGORIE = categorie)

RECURSIVE SumUnitTime(_)
SumUnitTime(rows) ==
    IF rows = <<>> THEN FZero
    ELSE FAdd(SqlRatio(Head(rows).CUMUL_TEMPS_PASSES, Head(rows).CUMUL_ENTREES),
              SumUnitTime(Tail(rows)))

\* AVG(...) AS TEMPS_UNITAIRE_MOYEN of one group of the hist_avg subquery;
\* NaN stands for "the subquery has no row for this key"
HistAvg(h, produit, categorie) ==
    LET rows == HistAvgEligible(h, produit, categorie)
    IN  IF rows = <<>> THEN NaN
        ELSE FDiv(SumUnitTime(rows), <<Len(rows), 1>>)

\* LEFT JOIN hist_avg ON ofda.PRODUIT = hist_avg.PRODUIT AND ofda.CATEGORIE =
\* hist_avg.CATEGORIE, then COALESCE(hist_avg.TEMPS_UNITAIRE_MOYEN, 0): a NULL
\* category never satisfies the ON condition
JoinHistAvg(h, r) ==
    IF r.CATEGORIE = NONE \/ r.PRODUIT = NONE THEN FZero
    ELSE LET a == HistAvg(h, r.PRODUIT, r.CATEGORIE)
         IN  IF IsNaN(a) THEN FZero ELSE a

\* the SELECT list of get_of_data and of get_of_data_with_lance_le_filter
ActiveSelect(h, r) ==
    [NUMERO_OFDA |-> r.NUMERO_OFDA,
     PRODUIT |-> r.PRODUIT,
     STATUT |-> r.STATUT,
     LANCEMENT_AU_PLUS_TARD |-> r.LANCEMENT_AU_PLUS_TARD,
     QUANTITE_DEMANDEE |-> r.QUANTITE_DEMANDEE,
     CUMUL_ENTREES |-> r.CUMUL_ENTREES,
     DUREE_PREVUE |-> r.DUREE_PREVUE,
     CUMUL_TEMPS_PASSES |-> r.CUMUL_TEMPS_PASSES,
     LANCE_LE |-> r.LANCE_LE,
     DATA_CLOTURE |-> NULL,
     FAMILLE_TECHNIQUE |-> Coalesce(r.CATEGORIE, "Non définie"),
     CLIENT |-> Coalesce(r.CLIENT, "Non défini"),
     SECTEUR |-> "Non défini",
     TEMPS_UNITAIRE_HISTORIQUE |-> JoinHistAvg(h, r),
     DATA_SOURCE |-> "ACTIVE",
     COMPLETION_STATUS |-> IF r.STATUT \in {"T", "A"} THEN "COMPLETED"
                           ELSE "IN_PROGRESS",
     Avancement_PROD |-> SqlRatio(r.CUMUL_ENTREES, r.QUANTITE_DEMANDEE),
     Avancement_temps |-> SqlRatio(r.CUMUL_TEMPS_PASSES, r.DUREE_PREVUE),
     Alerte_temps |-> (SqlGt0(r.DUREE_PREVUE) /\ r.CUMUL_TEMPS_PASSES # NULL
                       /\ r.CUMUL_TEMPS_PASSES > r.DUREE_PREVUE),
     EFFICACITE |-> Absent]

\* HistoSelect with the alert and the completion status computed per row, as
\* for an active order
HistoSelect_PerRow(r) ==
    [ActiveSelect(<<>>, r) EXCEPT
        !.DATA_CLOTURE = r.DATE_CLOTURE,
        !.TEMPS_UNITAIRE_HISTORIQUE = SqlRatio(r.CUMUL_TEMPS_PASSES, r.CUMUL_ENTREES),
        !.DATA_SOURCE = "HISTORICAL"]

\* the SELECT list of get_histo_of_data and of
\* get_histo_of_data_with_lance_le_filter
HistoSelect(r) ==
    [NUMERO_OFDA |-> r.NUMERO_OFDA,
     PRODUIT |-> r.PRODUIT,
     STATUT |-> r.STATUT,
     LANCEMENT_AU_PLUS_TARD |-> r.LANCEMENT_AU_PLUS_TARD,
     QUANTITE_DEMANDEE |-> r.QUANTITE_DEMANDEE,
     CUMUL_ENTREES |-> r.CUMUL_ENTREES,
     DUREE_PREVUE |-> r.DUREE_PREVUE,
     CUMUL_TEMPS_PASSES |-> r.CUMUL_TEMPS_PASSES,
     LANCE_LE |-> r.LANCE_LE,
     DATA_CLOTURE |-> r.DATE_CLOTURE,
     FAMILLE_TECHNIQUE |-> Coalesce(r.CATEGORIE, "Non définie"),
     CLIENT |-> Coalesce(r.CLIENT, "Non défini"),
     SECTEUR |-> "Non défini",
     TEMPS_UNITAIRE_HISTORIQUE |-> SqlRatio(r.CUMUL_TEMPS_PASSES, r.CUMUL_ENTREES),
     DATA_SOURCE |-> "HISTORICAL",
     COMPLETION_STATUS |-> "COMPLETED",
     Avancement_PROD |-> SqlRatio(r.CUMUL_ENTREES, r.QUANTITE_DEMANDEE),
     Avancement_temps |-> SqlRatio(r.CUMUL_TEMPS_PASSES, r.DUREE_PREVUE),
     Alerte_temps |-> FALSE,
     EFFICACITE |-> Absent]

\* ORDER BY LANCEMENT_AU_PLUS_TARD DESC (NULL sorts as the lowest value)
RECURSIVE InsertDesc(_, _)
InsertDesc(r, s) ==
    IF s = <<>> THEN <<r>>
    ELSE IF r.LANCEMENT_AU_PLUS_TARD > Head(s).LANCEMENT_AU_PLUS_TARD
         THEN <<r>> \o s
         ELSE <<Head(s)>> \o InsertDesc(r, Tail(s))

RECURSIVE OrderByDeadlineDesc(_)
OrderByDeadlineDesc(s) ==
    IF s = <<>> THEN <<>>
    ELSE InsertDesc(Head(s), OrderByDeadlineDesc(Tail(s)))

\* the optional equality conditions of the active queries
ActiveWhere(r, a) ==
    /\ LikeF(r.NUMERO_OFDA)
    /\ (a.statut_filter # NONE => r.STATUT = a.statut_filter)
    /\ (a.famille_filter # NONE =>
            Coalesce(r.CATEGORIE, "Non définie") = a.famille_filter)
    /\ (a.client_filter # NONE =>
            Coalesce(r.CLIENT, "Non défini") = a.client_filter)

\* the optional equality conditions of the historical queries
HistoWhere(r, a) ==
    /\ LikeF(r.NUMERO_OFDA)
    /\ (a.famille_filter # NONE =>
            Coalesce(r.CATEGORIE, "Non définie") = a.famille_filter)
    /\ (a.client_filter # NONE =>
            Coalesce(r.CLIENT, "Non défini") = a.client_filter)

\* the launch-policy active query filtering on the deadline, as get_of_data
OfDataLanceLeDateColumn_Deadline(r) == r.LANCEMENT_AU_PLUS_TARD

\* the date column each query filters on
OfDataDateColumn(r) == r.LANCEMENT_AU_PLUS_TARD
HistoDataDateColumn(r) == r.DATE_CLOTURE
OfDataLanceLeDateColumn(r) == r.LANCE_LE
HistoDataLanceLeDateColumn(r) == r.LANCE_LE

\* the result set of the query get_of_data builds
OfDataQuery(a) ==
    LET s == OrderByDeadlineDesc(SelectSeq(ofda, LAMBDA r :
                 /\ ActiveWhere(r, a)
                 /\ DateWhere(OfDataDateColumn(r), a.date_debut, a.date_fin)))
    IN  [i \in 1..Len(s) |-> ActiveSelect(histo, s[i])]

\* the result set of the query get_histo_of_data builds
HistoDataQuery(a) ==
    LET s == OrderByDeadlineDesc(SelectSeq(histo, LAMBDA r :
                 /\ HistoWhere(r, a)
                 /\ DateWhere(HistoDataDateColumn(r), a.date_debut, a.date_fin)))
    IN  [i \in 1..Len(s) |-> HistoSelect(s[i])]

\* the result set of the query get_of_data_with_lance_le_filter builds
OfDataLanceLeQuery(a) ==
    LET s == OrderByDeadlineDesc(SelectSeq(ofda, LAMBDA r :
                 /\ ActiveWhere(r, a)
                 /\ DateWhere(OfDataLanceLeDateColumn(r), a.date_debut, a.date_fin)))
    IN  [i \in 1..Len(s) |-> ActiveSelect(histo, s[i])]

\* the result set of the query get_histo_of_data_with_lance_le_filter builds
HistoDataLanceLeQuery(a) ==
    LET s == OrderByDeadlineDesc(SelectSeq(histo, LAMBDA r :
                 /\ HistoWhere(r, a)
                 /\ DateWhere(HistoDataLanceLeDateColumn(r), a.date_debut, a.date_fin)))
    IN  [i \in 1..Len(s) |-> HistoSelect(s[i])]

(***************************************************************************)
(* ExcaliburDataAnalyzer: connection handling.                             *)
(* connection is "None", "Live" (a pyodbc connection to a reachable        *)
(* database) or "Stale" (a connection object whose database went away);    *)
(* engine is "None" or "Ok" (a pooled engine with pool_pre_ping, usable    *)
(* whenever the database is reachable).  sa tells whether create_engine    *)
(* and its SELECT 1 succeed for this driver.                               *)
(***************************************************************************)
_connect(up, sa) ==
    IF up THEN [connection |-> "Live", engine |-> IF sa THEN "Ok" ELSE "None"]
    ELSE [connection |-> "None", engine |-> "None"]

\* execute_query: ok says whether a read_sql call returned the result set;
\* otherwise the method returns an empty DataFrame
execute_query(up, conn, eng, sa) ==
    IF eng = "Ok" /\ up
    THEN [ok |-> TRUE, connection |-> conn, engine |-> eng]
    ELSE LET c1 == IF conn = "None" THEN _connect(up, sa)
                   ELSE [connection |-> conn, engine |-> eng]
         IN  IF c1.connection = "None"
             THEN [ok |-> FALSE, connection |-> "None", engine |-> c1.engine]
             ELSE IF c1.connection = "Live" /\ up
             THEN [ok |-> TRUE, connection |-> c1.connection, engine |-> c1.engine]
             ELSE LET c2 == _connect(up, sa)
                  IN  [ok |-> c2.connection # "None" /\ up,
                       connection |-> c2.connection, engine |-> c2.engine]

(***************************************************************************)
(* get_of_data: the fabricated sample frame and the Python post-processing *)
(***************************************************************************)
SampleNumeros == <<"F1000", "F1001", "F1002">>

\* the random draws of one fabricated row, cut down to three outcomes
SampleDraws ==
    { [STATUT |-> "C", date |-> 2, qd |-> 100, qp |-> 50, dp |-> 10, tp |-> 12],
      [STATUT |-> "T", date |-> 3, qd |-> 100, qp |-> 100, dp |-> 10, tp |-> 5],
      [STATUT |-> "A", date |-> 1, qd |-> 10, qp |-> 0, dp |-> 10, tp |-> 0] }

SampleRow(i, d) ==
    [NUMERO_OFDA |-> SampleNumeros[i],
     PRODUIT |-> "PROD_000",
     STATUT |-> d.STATUT,
     LANCEMENT_AU_PLUS_TARD |-> d.date,
     QUANTITE_DEMANDEE |-> d.qd,
     CUMUL_ENTREES |-> d.qp,
     DUREE_PREVUE |-> d.dp,
     CUMUL_TEMPS_PASSES |-> d.tp,
     LANCE_LE |-> d.date,
     DATA_CLOTURE |-> NULL,
     FAMILLE_TECHNIQUE |-> "Mécanique",
     CLIENT |-> "Client A",
     SECTEUR |-> "USINAGE",
     TEMPS_UNITAIRE_HISTORIQUE |-> Absent,
     DATA_SOURCE |-> "ACTIVE",
     COMPLETION_STATUS |-> IF d.STATUT \in {"T", "A"} THEN "COMPLETED"
                           ELSE "IN_PROGRESS",
     Avancement_PROD |-> Absent,
     Avancement_temps |-> Absent,
     Alerte_temps |-> FALSE,
     EFFICACITE |-> Absent]

\* the frames _create_sample_data can return
SampleFrames == [1..SampleSize -> SampleDraws]
_create_sample_data(draws) == [i \in 1..SampleSize |-> SampleRow(i, draws[i])]

\* the filters get_of_data applies to the sample frame
SampleFilter(df, a) ==
    SelectSeq(df, LAMBDA r :
        /\ (a.statut_filter # NONE => r.STATUT = a.statut_filter)
        /\ (a.famille_filter # NONE => r.FAMILLE_TECHNIQUE = a.famille_filter)
        /\ (a.client_filter # NONE => r.CLIENT = a.client_filter)
        /\ (a.date_debut # NULL => r.LANCEMENT_AU_PLUS_TARD >= a.date_debut)
        /\ (a.date_fin # NULL => r.LANCEMENT_AU_PLUS_TARD <= a.date_fin))

\* row[num] / row[den] if row[den] and row[den] != 0 else 0, on float columns
\* (NaN is truthy and differs from 0)
PyRatio(num, den) ==
    IF den = NULL THEN NaN
    ELSE IF den = 0 THEN FZero
    ELSE IF num = NULL THEN NaN
    ELSE Frac(num, den)

\* df['Alerte_temps'] = df['Avancement_temps'] > df['Avancement_PROD']
PyAlerte(temps, prod) == FGt(temps, prod)

\* row['Avancement_PROD'] / row['Avancement_temps']
\*     if row['Avancement_temps'] and row['Avancement_temps'] != 0 else 1.0
PyEfficacite(prod, temps) ==
    IF IsNaN(temps) THEN NaN
    ELSE IF temps[1] = 0 THEN FOne
    ELSE FDiv(prod, temps)

\* the calculated columns get_of_data adds to one row
AddCalculated(r) ==
    LET prod == PyRatio(r.CUMUL_ENTREES, r.QUANTITE_DEMANDEE)
        temps == PyRatio(r.CUMUL_TEMPS_PASSES, r.DUREE_PREVUE)
    IN  [r EXCEPT !.Avancement_PROD = prod,
                  !.Avancement_temps = temps,
                  !.Alerte_temps = PyAlerte(temps, prod),
                  !.EFFICACITE = PyEfficacite(prod, temps)]

\* the part of get_of_data after the query, for a non-empty frame
PostProcess(df, a) ==
    LET calc == [i \in 1..Len(df) |-> AddCalculated(df[i])]
    IN  IF a.alerte_filter = "True"
        THEN SelectSeq(calc, LAMBDA r : r.Alerte_temps)
        ELSE calc

\* the columns of a frame read_sql returns for the SELECT lists above (of the
\* columns this module follows); pd.DataFrame() has none
SelectColumns ==
    {"NUMERO_OFDA", "PRODUIT", "STATUT", "LANCEMENT_AU_PLUS_TARD",
     "QUANTITE_DEMANDEE", "CUMUL_ENTREES", "DUREE_PREVUE", "CUMUL_TEMPS_PASSES",
     "LANCE_LE", "DATA_CLOTURE", "FAMILLE_TECHNIQUE", "CLIENT", "SECTEUR",
     "TEMPS_UNITAIRE_HISTORIQUE", "DATA_SOURCE", "COMPLETION_STATUS",
     "Avancement_PROD", "Avancement_temps", "Alerte_temps"}

\* the keys of the dictionaries _create_sample_data builds
SampleColumns ==
    {"NUMERO_OFDA", "PRODUIT", "STATUT", "LANCEMENT_AU_PLUS_TARD",
     "QUANTITE_DEMANDEE", "CUMUL_ENTREES", "DUREE_PREVUE", "CUMUL_TEMPS_PASSES",
     "LANCE_LE", "DATA_CLOTURE", "FAMILLE_TECHNIQUE", "CLIENT", "SECTEUR"}

\* the columns get_of_data assigns on a non-empty frame
CalculatedColumns ==
    {"Avancement_PROD", "Avancement_temps", "Alerte_temps", "DATA_SOURCE",
     "COMPLETION_STATUS", "EFFICACITE"}

\* get_of_data, line 285: the query came back empty and no sample frame was
\* fabricated before on this analyzer
get_of_data_substitutes(a, q, created) ==
    (IF q.ok THEN OfDataQuery(a) ELSE <<>>) = <<>> /\ ~created

\* get_of_data.  q is the outcome of execute_query, created the value of
\* _sample_data_created, draws the random draws of _create_sample_data.
get_of_data(a, q, created, draws) ==
    LET rows == IF q.ok THEN OfDataQuery(a) ELSE <<>>
        sub == get_of_data_substitutes(a, q, created)
        df == IF sub THEN SampleFilter(_create_sample_data(draws), a) ELSE rows
        columns == IF sub THEN SampleColumns
                   ELSE IF q.ok THEN SelectColumns ELSE {}
    IN  [df |-> IF df # <<>> THEN PostProcess(df, a) ELSE df,
         columns |-> IF df # <<>> THEN columns \cup CalculatedColumns ELSE columns,
         sample_data_created |-> created \/ sub]

\* get_histo_of_data
get_histo_of_data(a, q) == IF q.ok THEN HistoDataQuery(a) ELSE <<>>

\* get_of_data_with_lance_le_filter
get_of_data_with_lance_le_filter(a, q) ==
    LET df == IF q.ok THEN OfDataLanceLeQuery(a) ELSE <<>>
    IN  IF a.alerte_filter = "True" THEN SelectSeq(df, LAMBDA r : r.Alerte_temps)
        ELSE IF a.alerte_filter = "False" THEN SelectSeq(df, LAMBDA r : ~r.Alerte_temps)
        ELSE df

\* get_histo_of_data_with_lance_le_filter
get_histo_of_data_with_lance_le_filter(a, q) ==
    IF q.ok THEN HistoDataLanceLeQuery(a) ELSE <<>>

\* the columns of the frames above: get_histo_of_data and
\* get_histo_of_data_with_lance_le_filter hand back the frame of execute_query,
\* get_of_data_with_lance_le_filter replaces an empty one by pd.DataFrame()
get_histo_of_data_columns(q) == IF q.ok THEN SelectColumns ELSE {}
get_of_data_with_lance_le_filter_columns(a, q) ==
    IF q.ok /\ OfDataLanceLeQuery(a) # <<>> THEN SelectColumns ELSE {}

(***************************************************************************)
(* Calls and their arguments.                                              *)
(***************************************************************************)
DebutArgs == {NULL, LoDate}
FinArgs == {NULL, MaxDate - 1}

NoFilter ==
    [statut_filter |-> NONE, famille_filter |-> NONE, client_filter |-> NONE,
     alerte_filter |-> "None"]

\* the filter arguments callers pass: none, or one of them
ActiveFilters ==
    { NoFilter,
      [NoFilter EXCEPT !.statut_filter = "C"],
      [NoFilter EXCEPT !.famille_filter = "FAM1"],
      [NoFilter EXCEPT !.client_filter = "CL1"],
      [NoFilter EXCEPT !.alerte_filter = "True"],
      [NoFilter EXCEPT !.alerte_filter = "False"] }

\* get_histo_of_data takes no status and no alert filter
HistoFilters == { f \in ActiveFilters : f.statut_filter = NONE /\ f.alerte_filter = "None" }

\* get_overview_dashboard takes no alert filter
OverviewFilters == { f \in ActiveFilters : f.alerte_filter = "None" }

Args(op, date_debut, date_fin, f, include_historical, apply_date_range) ==
    [op |-> op, date_debut |-> date_debut, date_fin |-> date_fin,
     statut_filter |-> f.statut_filter, famille_filter |-> f.famille_filter,
     client_filter |-> f.client_filter, alerte_filter |-> f.alerte_filter,
     include_historical |-> include_historical,
     apply_date_range |-> apply_date_range]

NoCall == Args("none", NULL, NULL, NoFilter, FALSE, FALSE)

\* what a call handed back: raised (an exception reached the caller), df (the
\* returned frame; for get_historical_analysis its current_data), historical
\* (historical_data of get_historical_analysis and get_performance_analytics),
\* columns (the columns of df), response (the dictionary a controller method
\* built from the frames), and failed, which records whether execute_query
\* could not obtain a result set during the call
NoResult ==
    [raised |-> FALSE, failed |-> FALSE, df |-> <<>>, historical |-> <<>>,
     columns |-> {}, response |-> <<>>]

(***************************************************************************)
(* Table contents.                                                         *)
(***************************************************************************)
BaseActive ==
    [NUMERO_OFDA |-> "F1000", PRODUIT |-> "P1", STATUT |-> "C",
     LANCEMENT_AU_PLUS_TARD |-> 2, LANCE_LE |-> 2, DATE_CLOTURE |-> NULL,
     QUANTITE_DEMANDEE |-> 100, CUMUL_ENTREES |-> 50,
     DUREE_PREVUE |-> 10, CUMUL_TEMPS_PASSES |-> 10,
     CATEGORIE |-> "FAM1", CLIENT |-> "CL1"]

BaseHisto ==
    [BaseActive EXCEPT !.NUMERO_OFDA = "F2", !.STATUT = "T", !.DATE_CLOTURE = 3,
                       !.CUMUL_ENTREES = 100, !.CUMUL_TEMPS_PASSES = 12]

\* (QUANTITE_DEMANDEE, CUMUL_ENTREES) and (DUREE_PREVUE, CUMUL_TEMPS_PASSES)
QtyPairs == { <<100, 50>>, <<0, 50>>, <<NULL, 50>>, <<100, NULL>>, <<100, 0>> }
TimePairs == { <<10, 10>>, <<10, 12>>, <<0, 5>>, <<NULL, 5>>, <<10, NULL>>, <<10, 0>> }

WithNumbers(r, q, t) ==
    [r EXCEPT !.QUANTITE_DEMANDEE = q[1], !.CUMUL_ENTREES = q[2],
              !.DUREE_PREVUE = t[1], !.CUMUL_TEMPS_PASSES = t[2]]

\* one order with any quantities and durations: an active one, a terminated
\* historical one, or a historical one still marked in progress beside an
\* active order
NumericTables ==
    { <<<<WithNumbers(BaseActive, q, t)>>, <<>>>> : q \in QtyPairs, t \in TimePairs }
    \cup { <<<<>>, <<WithNumbers(BaseHisto, q, t)>>>> :
              q \in QtyPairs, t \in TimePairs }
    \cup { <<<<BaseActive>>, <<WithNumbers([BaseHisto EXCEPT !.STATUT = "C"], q, t)>>>> :
              q \in QtyPairs, t \in TimePairs }
    \cup { <<<<>>, <<>>>>,
           <<<<[BaseActive EXCEPT !.NUMERO_OFDA = "X9"]>>,
             <<[BaseHisto EXCEPT !.NUMERO_OFDA = "X9"]>>>> }

RowDates == {NULL} \cup 1..MaxDate

SecondActive == [BaseActive EXCEPT !.NUMERO_OFDA = "F2"]
SecondHisto == [BaseHisto EXCEPT !.NUMERO_OFDA = "F1000", !.DATE_CLOTURE = 2]

\* orders with any dates: one order of one source alone, or beside an order
\* with fixed dates and an order of the other source
DateTables ==
    { <<<<[BaseActive EXCEPT !.LANCEMENT_AU_PLUS_TARD = d, !.LANCE_LE = l]>>, <<>>>> :
          d \in RowDates, l \in RowDates }
    \cup { <<<<[BaseActive EXCEPT !.LANCEMENT_AU_PLUS_TARD = d, !.LANCE_LE = l],
               SecondActive>>, <<BaseHisto>>>> : d \in RowDates, l \in RowDates }
    \cup { <<<<>>, <<[BaseHisto EXCEPT !.DATE_CLOTURE = d, !.LANCE_LE = l]>>>> :
              d \in RowDates, l \in RowDates }
    \cup { <<<<BaseActive>>, <<[BaseHisto EXCEPT !.DATE_CLOTURE = d, !.LANCE_LE = l],
                               SecondHisto>>>> : d \in RowDates, l \in RowDates }

\* historical rows the baseline is computed from: product P1 / category FAM1
\* with a unit time of 3, of 1, with no quantity and with no time; another
\* product; another category
BaselineRowSeq ==
    << [BaseHisto EXCEPT !.CUMUL_ENTREES = 2, !.CUMUL_TEMPS_PASSES = 6],
       [BaseHisto EXCEPT !.CUMUL_ENTREES = 4, !.CUMUL_TEMPS_PASSES = 4],
       [BaseHisto EXCEPT !.CUMUL_ENTREES = 0, !.CUMUL_TEMPS_PASSES = 6],
       [BaseHisto EXCEPT !.CUMUL_ENTREES = 2, !.CUMUL_TEMPS_PASSES = 0],
       [BaseHisto EXCEPT !.PRODUIT = "P2", !.CUMUL_ENTREES = 1, !.CUMUL_TEMPS_PASSES = 7],
       [BaseHisto EXCEPT !.CATEGORIE = "FAM2", !.CUMUL_ENTREES = 1, !.CUMUL_TEMPS_PASSES = 5] >>
BaselineRows == { BaselineRowSeq[k] : k \in DOMAIN BaselineRowSeq }

RECURSIVE SeqsUpTo(_, _)
SeqsUpTo(S, n) ==
    IF n = 0 THEN {<<>>}
    ELSE LET shorter == SeqsUpTo(S, n - 1)
         IN  shorter \cup { Append(s, x) : s \in shorter, x \in S }

\* one active order of product P1 / category FAM1 and up to MaxHistoRows
\* historical rows (the baseline does not depend on the order of the rows in
\* the table: one order per choice of rows)
BaselineTables ==
    { <<<<BaseActive>>, [i \in 1..Len(ks) |-> BaselineRowSeq[ks[i]]]>> :
        ks \in { s \in SeqsUpTo(DOMAIN BaselineRowSeq, MaxHistoRows) :
                   \A i \in 1..(Len(s) - 1) : s[i] <= s[i + 1] } }

\* the end-to-end scenarios: A (time_spent = planned_duration) and B
\* (time_spent = 12) for an active order whose deadline precedes its launch,
\* alone or beside a historical order; C (both tables empty); D (a historical
\* order with nothing produced)
ScenarioA == [BaseActive EXCEPT !.LANCEMENT_AU_PLUS_TARD = 1]
ScenarioB == [ScenarioA EXCEPT !.CUMUL_TEMPS_PASSES = 12]
ScenarioTables ==
    { <<<<a>>, h>> : a \in {ScenarioA, ScenarioB}, h \in {<<>>, <<BaseHisto>>} }
    \cup { <<<<>>, <<>>>>, <<<<>>, <<[BaseHisto EXCEPT !.CUMUL_ENTREES = 0]>>>> }

\* an active order of product P1 with or without a category, beside up to two
\* historical rows: of P1 / FAM1 (unit time 3, or nothing produced), of P1
\* without category (unit time 2), of P2 without category
JoinRows ==
    { [BaseHisto EXCEPT !.CUMUL_ENTREES = 2, !.CUMUL_TEMPS_PASSES = 6],
      [BaseHisto EXCEPT !.CUMUL_ENTREES = 0, !.CUMUL_TEMPS_PASSES = 6],
      [BaseHisto EXCEPT !.CATEGORIE = NONE, !.CUMUL_ENTREES = 3,
                        !.CUMUL_TEMPS_PASSES = 6],
      [BaseHisto EXCEPT !.PRODUIT = "P2", !.CATEGORIE = NONE, !.CUMUL_ENTREES = 1,
                        !.CUMUL_TEMPS_PASSES = 7] }

JoinTables ==
    { <<<<a>>, h>> : a \in {BaseActive, [BaseActive EXCEPT !.CATEGORIE = NONE]},
                     h \in SeqsUpTo(JoinRows, 2) }

\* active orders the aggregations are computed over: status codes C, T, an
\* unlisted code X and no status; production progress 0.2, 0.3, 0.5, 0.8, 1.0
\* and unknown; time progress 0, 0.5, 1.0 and 1.2
AggregateRows ==
    { BaseActive,
      [BaseActive EXCEPT !.STATUT = "T", !.CUMUL_ENTREES = 20, !.CUMUL_TEMPS_PASSES = 12],
      [BaseActive EXCEPT !.STATUT = "X", !.CUMUL_ENTREES = 80],
      [BaseActive EXCEPT !.STATUT = NONE, !.CUMUL_ENTREES = 100, !.CUMUL_TEMPS_PASSES = 5],
      [BaseActive EXCEPT !.CUMUL_ENTREES = 30, !.CUMUL_TEMPS_PASSES = 0],
      [BaseActive EXCEPT !.CUMUL_ENTREES = NULL],
      [BaseActive EXCEPT !.CUMUL_ENTREES = 100] }

\* no or one active order, with or without a historical order; two active
\* orders; an order on which no time was spent, another active order and a
\* historical order
AggregateTables ==
    { <<a, h>> : a \in {<<>>} \cup { <<r>> : r \in AggregateRows },
                 h \in {<<>>, <<[BaseHisto EXCEPT !.NUMERO_OFDA = "F1000"]>>} }
    \cup { <<<<r1, [r2 EXCEPT !.NUMERO_OFDA = "F2"]>>, <<>>>> :
              r1 \in AggregateRows, r2 \in AggregateRows }
    \cup { <<<<[BaseActive EXCEPT !.CUMUL_ENTREES = 30, !.CUMUL_TEMPS_PASSES = 0],
               [r2 EXCEPT !.NUMERO_OFDA = "F2"]>>,
             <<[BaseHisto EXCEPT !.NUMERO_OFDA = "F1000"]>>>> : r2 \in AggregateRows }

\* orders with and without a category and a client; a historical order of
\* the pair P1 / FAM1 with a unit time of 10 / 3, with or without a category
FamilyRows ==
    { BaseActive,
      [BaseActive EXCEPT !.CATEGORIE = NONE, !.CUMUL_ENTREES = 20],
      [BaseActive EXCEPT !.CLIENT = NONE, !.CUMUL_ENTREES = 25],
      [BaseActive EXCEPT !.CATEGORIE = "FAM2", !.CUMUL_ENTREES = NULL] }

FamilyHisto ==
    [BaseHisto EXCEPT !.NUMERO_OFDA = "F1000", !.CUMUL_ENTREES = 3,
                      !.CUMUL_TEMPS_PASSES = 10]

\* no, one or two active orders, beside no historical order, one of FAM1 or
\* one without category and client
FamilyTables ==
    { <<a, h>> :
        a \in {<<>>} \cup { <<r>> : r \in FamilyRows }
              \cup { <<r1, [r2 EXCEPT !.NUMERO_OFDA = "F2"]>> :
                        r1 \in FamilyRows, r2 \in FamilyRows },
        h \in { <<>>, <<FamilyHisto>>,
                <<[FamilyHisto EXCEPT !.CATEGORIE = NONE, !.CLIENT = NONE]>> } }

\* orders whose status is a known code, a code without a fixed label, or
\* missing, and an order whose number does not start with F
StatusRows(base) ==
    { [base EXCEPT !.STATUT = "C"],
      [base EXCEPT !.STATUT = "T"],
      [base EXCEPT !.STATUT = "Z"],
      [base EXCEPT !.STATUT = NONE],
      [base EXCEPT !.STATUT = "P", !.NUMERO_OFDA = "X9"] }

\* no or one order in each source; two active orders with the same status; an
\* active order beside a historical order of the same status and another one
StatusTables ==
    { <<a, h>> : a \in SeqsUpTo(StatusRows(BaseActive), 1),
                 h \in SeqsUpTo(StatusRows(BaseHisto), 1) }
    \cup { <<<<BaseActive, [BaseActive EXCEPT !.NUMERO_OFDA = "F2"]>>, <<>>>> }
    \cup { <<<<BaseActive>>, <<[BaseHisto EXCEPT !.STATUT = "C"], h>>>> :
              h \in StatusRows(BaseHisto) }

\* no request is running step by step, the notification service has just
\* been constructed
NoThreads == <<>>
ServiceInit ==
    /\ now = 1
    /\ sent_notifications = <<>>
    /\ emails = <<>>
    /\ cleaned = FALSE

AnalyzerInit ==
    /\ threads = NoThreads
    /\ ServiceInit
    /\ dbUp \in BOOLEAN
    /\ \E sa \in BOOLEAN :
          /\ connection = _connect(dbUp, sa).connection
          /\ engine = _connect(dbUp, sa).engine
    /\ sample_data_created = FALSE
    /\ call = NoCall
    /\ result = NoResult

Init ==
    /\ \E t \in NumericTables : ofda = t[1] /\ histo = t[2]
    /\ AnalyzerInit

InitDates ==
    /\ \E t \in DateTables : ofda = t[1] /\ histo = t[2]
    /\ AnalyzerInit

InitScenarios ==
    /\ \E t \in ScenarioTables : ofda = t[1] /\ histo = t[2]
    /\ AnalyzerInit

InitBaseline ==
    /\ \E t \in BaselineTables : ofda = t[1] /\ histo = t[2]
    /\ AnalyzerInit

InitJoin ==
    /\ \E t \in JoinTables : ofda = t[1] /\ histo = t[2]
    /\ AnalyzerInit

InitAggregates ==
    /\ \E t \in AggregateTables : ofda = t[1] /\ histo = t[2]
    /\ AnalyzerInit

InitFamilies ==
    /\ \E t \in FamilyTables : ofda = t[1] /\ histo = t[2]
    /\ AnalyzerInit

InitStatuses ==
    /\ \E t \in StatusTables : ofda = t[1] /\ histo = t[2]
    /\ AnalyzerInit

(***************************************************************************)
(* The dashboard controller's aggregations over a frame.  A dictionary is  *)
(* a function on its keys, {} and [] are <<>>.                             *)
(***************************************************************************)
\* _get_status_distribution: value_counts() leaves out the rows whose STATUT
\* is null, total counts every row
_get_status_distribution(data) ==
    IF data = <<>> THEN <<>>
    ELSE LET present == { data[i].STATUT : i \in 1..Len(data) } \ {NONE}
             status_counts ==
                 [st \in present |-> Len(SelectSeq(data, LAMBDA r : r.STATUT = st))]
             total == Len(data)
         IN  [counts |-> status_counts,
              percentages |-> [st \in present |-> Frac(status_counts[st] * 100, total)],
              total |-> total]

\* _get_overview_alerts with an entry for every rule, triggered or not
_get_overview_alerts_Placeholders(data) ==
    LET time_alerts == SelectSeq(data, LAMBDA r : r.Alerte_temps)
        low_advancement == SelectSeq(data, LAMBDA r : FLt(r.Avancement_PROD, <<3, 10>>))
    IN  << [type |-> "time_overrun", severity |-> "warning", count |-> Len(time_alerts)],
           [type |-> "low_advancement", severity |-> "info",
            count |-> Len(low_advancement)] >>

\* _get_overview_alerts
_get_overview_alerts(data) ==
    LET time_alerts == SelectSeq(data, LAMBDA r : r.Alerte_temps)
        low_advancement == SelectSeq(data, LAMBDA r : FLt(r.Avancement_PROD, <<3, 10>>))
    IN  (IF time_alerts # <<>>
         THEN << [type |-> "time_overrun", severity |-> "warning",
                  count |-> Len(time_alerts)] >>
         ELSE <<>>)
        \o (IF low_advancement # <<>>
            THEN << [type |-> "low_advancement", severity |-> "info",
                     count |-> Len(low_advancement)] >>
            ELSE <<>>)

\* _empty_overview_response (of the sections this module follows)
_empty_overview_response ==
    [status_distribution |-> <<>>, alerts |-> <<>>, total_records |-> 0]

\* _get_family_breakdown and _analyze_family_performance aggregate the column
\* TEMPS_UNITAIRE_HISTORIQUE of a non-empty frame: agg raises KeyError when the
\* frame does not have it
_get_family_breakdown_raises(data, columns) ==
    data # <<>> /\ "TEMPS_UNITAIRE_HISTORIQUE" \notin columns
_analyze_family_performance_raises(current_data, columns) ==
    current_data # <<>> /\ "TEMPS_UNITAIRE_HISTORIQUE" \notin columns

\* what a controller method hands back when a helper raised: its except
\* clause raises a new Exception, no response is built
Raised(failed) ==
    [raised |-> TRUE, failed |-> failed, df |-> <<>>, historical |-> <<>>,
     columns |-> {}, response |-> <<>>]

\* DataFrame.round(3) of one value: to the nearest multiple of 1/1000, a tie to
\* the even one; a missing value stays missing
Round3(x) ==
    IF ~IsNum(x) THEN x
    ELSE LET n == x[1] * 1000
             q == n \div x[2]
             r == n % x[2]
         IN  Frac(IF 2 * r > x[2] \/ (2 * r = x[2] /\ q % 2 = 1) THEN q + 1 ELSE q,
                  1000)

RECURSIVE SumColumn(_, _, _)
SumColumn(data, rows, column) ==
    IF rows = {} THEN FZero
    ELSE LET i == CHOOSE k \in rows : TRUE
         IN  FAdd(data[i][column], SumColumn(data, rows \ {i}, column))

\* the 'mean' aggregation of a column over the rows of a group: missing
\* values are skipped, a group without a value has no mean
GroupMean(data, rows, column) ==
    LET valued == { i \in rows : IsNum(data[i][column]) }
    IN  IF valued = {} THEN NaN
        ELSE FDiv(SumColumn(data, valued, column), <<Cardinality(valued), 1>>)

\* _get_family_breakdown without .round(3)
_get_family_breakdown_Unrounded(data) ==
    IF data = <<>> THEN <<>>
    ELSE [family \in { data[i].FAMILLE_TECHNIQUE : i \in 1..Len(data) } \ {NONE} |->
            LET rows == { i \in 1..Len(data) : data[i].FAMILLE_TECHNIQUE = family }
            IN  [NUMERO_OFDA |-> Cardinality(rows),
                 Avancement_PROD |-> GroupMean(data, rows, "Avancement_PROD"),
                 TEMPS_UNITAIRE_HISTORIQUE |->
                     GroupMean(data, rows, "TEMPS_UNITAIRE_HISTORIQUE")]]

\* _get_family_breakdown: groupby leaves rows with a missing key out
_get_family_breakdown(data) ==
    IF data = <<>> THEN <<>>
    ELSE [family \in { data[i].FAMILLE_TECHNIQUE : i \in 1..Len(data) } \ {NONE} |->
            LET rows == { i \in 1..Len(data) : data[i].FAMILLE_TECHNIQUE = family }
            IN  [NUMERO_OFDA |-> Cardinality(rows),
                 Avancement_PROD |-> Round3(GroupMean(data, rows, "Avancement_PROD")),
                 TEMPS_UNITAIRE_HISTORIQUE |->
                     Round3(GroupMean(data, rows, "TEMPS_UNITAIRE_HISTORIQUE"))]]

\* the response get_overview_dashboard builds from the frame it loaded
overview_response(data) ==
    IF data = <<>> THEN _empty_overview_response
    ELSE [status_distribution |-> _get_status_distribution(data),
          family_breakdown |-> _get_family_breakdown(data),
          alerts |-> _get_overview_alerts(data),
          total_records |-> Len(data)]

\* get_overview_dashboard after the frame is loaded
overview_result(failed, data, columns) ==
    IF _get_family_breakdown_raises(data, columns) THEN Raised(failed)
    ELSE [raised |-> FALSE, failed |-> failed, df |-> data, historical |-> <<>>,
          columns |-> columns, response |-> overview_response(data)]

\* the keys of efficiency_distribution
Buckets == {"below_50%", "50-80%", "80-100%", "above_100%"}

\* InBucket with the third range open at 1.0
InBucket_Open(b, ratio) ==
    CASE b = "below_50%" -> FLt(ratio, <<1, 2>>)
      [] b = "50-80%" -> FGe(ratio, <<1, 2>>) /\ FLt(ratio, <<4, 5>>)
      [] b = "80-100%" -> FGe(ratio, <<4, 5>>) /\ FLt(ratio, FOne)
      [] b = "above_100%" -> FGt(ratio, FOne)

\* the conditions of the four len(...) of efficiency_distribution
InBucket(b, ratio) ==
    CASE b = "below_50%" -> FLt(ratio, <<1, 2>>)
      [] b = "50-80%" -> FGe(ratio, <<1, 2>>) /\ FLt(ratio, <<4, 5>>)
      [] b = "80-100%" -> FGe(ratio, <<4, 5>>) /\ FLe(ratio, FOne)
      [] b = "above_100%" -> FGt(ratio, FOne)

\* _get_efficiency_trends (avg_efficiency is not followed)
_get_efficiency_trends(current_data, historical_data) ==
    LET efficiency_data ==
            SelectSeq(current_data, LAMBDA r : /\ FGt(r.Avancement_temps, FZero)
                                               /\ ~IsNaN(r.Avancement_PROD)
                                               /\ ~IsNaN(r.Avancement_temps))
        efficiency_ratio(r) == FDiv(r.Avancement_PROD, r.Avancement_temps)
    IN  [current_efficiency |->
             IF efficiency_data # <<>>
             THEN [b \in Buckets |->
                      Len(SelectSeq(efficiency_data,
                                    LAMBDA r : InBucket(b, efficiency_ratio(r))))]
             ELSE <<>>,
         historical_efficiency |->
             IF historical_data # <<>> THEN [completion_rate |-> 100] ELSE <<>>]

\* the response get_performance_analytics builds (efficiency_trends and
\* data_summary)
performance_response(current_data, historical_data) ==
    [efficiency_trends |-> _get_efficiency_trends(current_data, historical_data),
     current_period_records |-> Len(current_data),
     historical_records |-> Len(historical_data)]

(***************************************************************************)
(* Actions.                                                                *)
(***************************************************************************)
\* _calculate_quality_indicators counting a row on the limit as well
_calculate_quality_indicators_Inclusive(data) ==
    IF data = <<>> THEN <<>>
    ELSE [total_records |-> Len(data),
          over_production_count |->
              Cardinality({ i \in 1..Len(data) :
                  FGe(ToFloat(data[i].CUMUL_ENTREES), ToFloat(data[i].QUANTITE_DEMANDEE)) }),
          time_overrun_count |->
              Cardinality({ i \in 1..Len(data) :
                  FGe(ToFloat(data[i].CUMUL_TEMPS_PASSES), ToFloat(data[i].DUREE_PREVUE)) })]

\* _calculate_quality_indicators: the data_consistency counts (every frame the
\* engine returns has the four columns; a comparison with a missing value is
\* false)
_calculate_quality_indicators(data) ==
    IF data = <<>> THEN <<>>
    ELSE [total_records |-> Len(data),
          over_production_count |->
              Cardinality({ i \in 1..Len(data) :
                  FGt(ToFloat(data[i].CUMUL_ENTREES), ToFloat(data[i].QUANTITE_DEMANDEE)) }),
          time_overrun_count |->
              Cardinality({ i \in 1..Len(data) :
                  FGt(ToFloat(data[i].CUMUL_TEMPS_PASSES), ToFloat(data[i].DUREE_PREVUE)) })]

_analyze_data_quality(of_da_data, histo_of_da_data) ==
    [of_da_quality |-> IF of_da_data # <<>>
                       THEN _calculate_quality_indicators(of_da_data) ELSE <<>>,
     histo_of_da_quality |-> IF histo_of_da_data # <<>>
                             THEN _calculate_quality_indicators(histo_of_da_data)
                             ELSE <<>>]

\* _get_table_insights reads status_counts.iloc[0] of the value counts of
\* STATUT, which are empty when no row of a non-empty OF_DA frame has a status
_get_table_insights_raises(of_da_data) ==
    /\ of_da_data # <<>>
    /\ \A i \in 1..Len(of_da_data) : of_da_data[i].STATUT = NONE

data_source_comparison_response(of_da_data, histo_of_da_data) ==
    [data_quality |-> _analyze_data_quality(of_da_data, histo_of_da_data),
     comparison_summary |->
         [of_da_records |-> Len(of_da_data),
          histo_of_da_records |-> Len(histo_of_da_data),
          total_records |-> Len(of_da_data) + Len(histo_of_da_data)]]

\* SELECT DISTINCT STATUT FROM <table> WHERE NUMERO_OFDA LIKE 'F%' AND STATUT
\* IS NOT NULL, as the list the controller makes of it (the query has no ORDER
\* BY: a set)
DistinctStatuses(table) ==
    { table[i].STATUT : i \in { j \in 1..Len(table) :
                                  LikeF(table[j].NUMERO_OFDA) /\ table[j].STATUT # NONE } }

StatusLabels ==
    [C |-> "En Cours", T |-> "Terminé", A |-> "Arrêté", P |-> "Planifié",
     S |-> "Suspendu", F |-> "Fini", X |-> "Annulé"]

\* _get_status_descriptions without the default of descriptions.get
_get_status_descriptions_KnownOnly(statuses) ==
    [status \in statuses \cap DOMAIN StatusLabels |-> StatusLabels[status]]

_get_status_descriptions(statuses) ==
    [status \in statuses |->
        IF status \in DOMAIN StatusLabels THEN StatusLabels[status]
        ELSE "Statut " \o status]

\* get_dynamic_statuses: q1 and q2 are its two execute_query calls (the second
\* is made only with include_historical)
get_dynamic_statuses(include_historical, q1, q2) ==
    LET active_statuses == IF q1.ok THEN DistinctStatuses(ofda) ELSE {}
        historical_statuses ==
            IF include_historical /\ q2.ok THEN DistinctStatuses(histo) ELSE {}
        all_statuses == active_statuses \cup historical_statuses
    IN  [active_statuses |-> active_statuses,
         historical_statuses |-> historical_statuses,
         all_statuses |-> all_statuses,
         status_descriptions |-> _get_status_descriptions(all_statuses)]

\* A call runs to completion (the engine is synchronous) and leaves its
\* response in call/result until Return hands it to the caller; the database
\* goes away and comes back between calls.
\* the database becomes unreachable: an open pyodbc connection goes stale
Idle == call.op = "none"

DbDown ==
    /\ Idle
    /\ UNCHANGED <<threadVars, serviceVars>>
    /\ dbUp
    /\ dbUp' = FALSE
    /\ connection' = IF connection = "Live" THEN "Stale" ELSE connection
    /\ UNCHANGED <<ofda, histo, engine, sample_data_created, call, result>>

DbUp ==
    /\ Idle
    /\ UNCHANGED <<threadVars, serviceVars>>
    /\ ~dbUp
    /\ dbUp' = TRUE
    /\ UNCHANGED <<ofda, histo, connection, engine, sample_data_created, call, result>>

\* the outcomes of create_engine that a call started in this state can meet:
\* _connect runs only when the engine is missing or its query failed, and
\* reaches create_engine only when the database is reachable
SaOutcomes == IF dbUp /\ engine # "Ok" THEN BOOLEAN ELSE {FALSE}

\* the frames _create_sample_data returns in a call that fabricates (none is
\* drawn in a call that does not)
DrawsFor(a, q) ==
    IF get_of_data_substitutes(a, q, sample_data_created) THEN SampleFrames
    ELSE {[i \in 1..SampleSize |-> CHOOSE d \in SampleDraws : TRUE]}

GetOfData ==
    /\ Idle
    /\ UNCHANGED <<threadVars, serviceVars>>
    /\ \E d1 \in DebutArgs, d2 \in FinArgs, f \in ActiveFilters, sa \in SaOutcomes :
        LET a == Args("get_of_data", d1, d2, f, FALSE, TRUE)
            q == execute_query(dbUp, connection, engine, sa)
        IN  \E draws \in DrawsFor(a, q) :
            LET r == get_of_data(a, q, sample_data_created, draws)
            IN  /\ call' = a
                /\ result' = [raised |-> FALSE, failed |-> ~q.ok, df |-> r.df,
                              historical |-> <<>>, columns |-> r.columns,
                              response |-> <<>>]
                /\ connection' = q.connection
                /\ engine' = q.engine
                /\ sample_data_created' = r.sample_data_created
                /\ UNCHANGED <<ofda, histo, dbUp>>

GetHistoOfData ==
    /\ Idle
    /\ UNCHANGED <<threadVars, serviceVars>>
    /\ \E d1 \in DebutArgs, d2 \in FinArgs, f \in HistoFilters, sa \in SaOutcomes :
        LET a == Args("get_histo_of_data", d1, d2, f, TRUE, TRUE)
            q == execute_query(dbUp, connection, engine, sa)
        IN  /\ call' = a
            /\ result' = [raised |-> FALSE, failed |-> ~q.ok,
                          df |-> get_histo_of_data(a, q), historical |-> <<>>,
                          columns |-> get_histo_of_data_columns(q),
                          response |-> <<>>]
            /\ connection' = q.connection
            /\ engine' = q.engine
            /\ UNCHANGED <<ofda, histo, dbUp, sample_data_created>>

\* get_combined_of_data keeping one row per order number (the active one)
get_combined_of_data_Dedup(a, up, conn, eng, sa) ==
    LET q1 == execute_query(up, conn, eng, sa)
        active_data == get_of_data_with_lance_le_filter(a, q1)
        q2 == execute_query(up, q1.connection, q1.engine, sa)
        historical_data ==
            SelectSeq(get_histo_of_data_with_lance_le_filter(a, q2),
                      LAMBDA h : \A i \in 1..Len(active_data) :
                                    active_data[i].NUMERO_OFDA # h.NUMERO_OFDA)
        active_columns == get_of_data_with_lance_le_filter_columns(a, q1)
        historical_columns == get_histo_of_data_columns(q2)
    IN  IF ~a.include_historical
        THEN [df |-> active_data, columns |-> active_columns, failed |-> ~q1.ok,
              connection |-> q1.connection, engine |-> q1.engine]
        ELSE [df |-> active_data \o historical_data,
              columns |-> IF active_data # <<>> /\ historical_data # <<>>
                          THEN active_columns \cup historical_columns
                          ELSE IF active_data # <<>> THEN active_columns
                          ELSE IF historical_data # <<>> THEN historical_columns
                          ELSE {},
              failed |-> ~q1.ok \/ ~q2.ok,
              connection |-> q2.connection, engine |-> q2.engine]

\* get_combined_of_data: the active query, then (include_historical) the
\* historical query on the connection state the first one left
get_combined_of_data(a, up, conn, eng, sa) ==
    LET q1 == execute_query(up, conn, eng, sa)
        active_data == get_of_data_with_lance_le_filter(a, q1)
        q2 == execute_query(up, q1.connection, q1.engine, sa)
        historical_data == get_histo_of_data_with_lance_le_filter(a, q2)
        active_columns == get_of_data_with_lance_le_filter_columns(a, q1)
        historical_columns == get_histo_of_data_columns(q2)
    IN  IF ~a.include_historical
        THEN [df |-> active_data, columns |-> active_columns, failed |-> ~q1.ok,
              connection |-> q1.connection, engine |-> q1.engine]
        ELSE [df |-> active_data \o historical_data,
              columns |-> IF active_data # <<>> /\ historical_data # <<>>
                          THEN active_columns \cup historical_columns
                          ELSE IF active_data # <<>> THEN active_columns
                          ELSE IF historical_data # <<>> THEN historical_columns
                          ELSE {},
              failed |-> ~q1.ok \/ ~q2.ok,
              connection |-> q2.connection, engine |-> q2.engine]

GetCombinedOfData ==
    /\ Idle
    /\ UNCHANGED <<threadVars, serviceVars>>
    /\ \E d1 \in DebutArgs, d2 \in FinArgs, f \in ActiveFilters,
          include_historical \in BOOLEAN, sa \in SaOutcomes :
        LET a == Args("get_combined_of_data", d1, d2, f, include_historical, TRUE)
            r == get_combined_of_data(a, dbUp, connection, engine, sa)
        IN  /\ call' = a
            /\ result' = [raised |-> FALSE, failed |-> r.failed, df |-> r.df,
                          historical |-> <<>>, columns |-> r.columns,
                          response |-> <<>>]
            /\ connection' = r.connection
            /\ engine' = r.engine
            /\ UNCHANGED <<ofda, histo, dbUp, sample_data_created>>

\* get_historical_analysis: get_of_data and get_histo_of_data over the same
\* date range (the deadline policy for both sources)
\* get_historical_analysis: the dictionary it returns.  An exception in the
\* method (the metrics read TEMPS_UNITAIRE_HISTORIQUE of a non-empty current
\* frame) is caught and answered with success False and no data.
historical_analysis_response(current_data, columns, historical_data) ==
    IF current_data = <<>> /\ historical_data = <<>>
    THEN [success |-> FALSE, data |-> <<>>]
    ELSE IF current_data # <<>> /\ "TEMPS_UNITAIRE_HISTORIQUE" \notin columns
    THEN [success |-> FALSE, data |-> <<>>]
    ELSE [success |-> TRUE,
          data |-> [metrics |->
                      [total_current_orders |-> Len(current_data),
                       total_historical_orders |-> Len(historical_data),
                       historical_completion_rate |->
                           IF historical_data # <<>> THEN 100 ELSE 0]]]

GetHistoricalAnalysis ==
    /\ Idle
    /\ UNCHANGED <<threadVars, serviceVars>>
    /\ \E d1 \in DebutArgs, d2 \in FinArgs, sa \in SaOutcomes :
        LET a == Args("get_historical_analysis", d1, d2, NoFilter, TRUE, TRUE)
            q1 == execute_query(dbUp, connection, engine, sa)
            q2 == execute_query(dbUp, q1.connection, q1.engine, sa)
        IN  \E draws \in DrawsFor(a, q1) :
            LET cur == get_of_data(a, q1, sample_data_created, draws)
            IN  /\ call' = a
                /\ result' = [raised |-> FALSE, failed |-> ~q1.ok \/ ~q2.ok,
                              df |-> cur.df, historical |-> get_histo_of_data(a, q2),
                              columns |-> cur.columns,
                              response |-> historical_analysis_response(
                                               cur.df, cur.columns,
                                               get_histo_of_data(a, q2))]
                /\ connection' = q2.connection
                /\ engine' = q2.engine
                /\ sample_data_created' = cur.sample_data_created
                /\ UNCHANGED <<ofda, histo, dbUp>>

\* get_overview_dashboard: the frame it loads and the response it builds
GetOverviewDashboard ==
    /\ Idle
    /\ UNCHANGED <<threadVars, serviceVars>>
    /\ \E d1 \in DebutArgs, d2 \in FinArgs, f \in OverviewFilters,
          include_historical \in BOOLEAN, apply_date_range \in BOOLEAN,
          sa \in SaOutcomes :
        LET a == Args("get_overview_dashboard", d1, d2, f, include_historical,
                      apply_date_range)
            eff == [a EXCEPT !.date_debut = IF apply_date_range THEN d1 ELSE NULL,
                             !.date_fin = IF apply_date_range THEN d2 ELSE NULL]
            q == execute_query(dbUp, connection, engine, sa)
            comb == get_combined_of_data(eff, dbUp, connection, engine, sa)
        IN  /\ call' = a
            /\ IF include_historical
               THEN /\ result' = overview_result(comb.failed, comb.df, comb.columns)
                    /\ connection' = comb.connection
                    /\ engine' = comb.engine
                    /\ UNCHANGED sample_data_created
               ELSE \E draws \in DrawsFor(eff, q) :
                    LET act == get_of_data(eff, q, sample_data_created, draws)
                    IN  /\ result' = overview_result(~q.ok, act.df, act.columns)
                        /\ connection' = q.connection
                        /\ engine' = q.engine
                        /\ sample_data_created' = act.sample_data_created
            /\ UNCHANGED <<ofda, histo, dbUp>>

\* get_performance_analytics: get_of_data and get_histo_of_data over the same
\* date range, then the efficiency trends (include_historical is only echoed
\* in the response)
GetPerformanceAnalytics ==
    /\ Idle
    /\ UNCHANGED <<threadVars, serviceVars>>
    /\ \E d1 \in DebutArgs, d2 \in FinArgs, apply_date_range \in BOOLEAN,
          sa \in SaOutcomes :
        LET a == Args("get_performance_analytics", d1, d2, NoFilter, FALSE,
                      apply_date_range)
            eff == [a EXCEPT !.date_debut = IF apply_date_range THEN d1 ELSE NULL,
                             !.date_fin = IF apply_date_range THEN d2 ELSE NULL]
            q1 == execute_query(dbUp, connection, engine, sa)
            q2 == execute_query(dbUp, q1.connection, q1.engine, sa)
            historical_data == get_histo_of_data(eff, q2)
        IN  \E draws \in DrawsFor(eff, q1) :
            LET cur == get_of_data(eff, q1, sample_data_created, draws)
            IN  /\ call' = a
                /\ result' =
                      IF _analyze_family_performance_raises(cur.df, cur.columns)
                      THEN Raised(~q1.ok \/ ~q2.ok)
                      ELSE [raised |-> FALSE, failed |-> ~q1.ok \/ ~q2.ok,
                            df |-> cur.df, historical |-> historical_data,
                            columns |-> cur.columns,
                            response |-> performance_response(cur.df,
                                                              historical_data)]
                /\ connection' = q2.connection
                /\ engine' = q2.engine
                /\ sample_data_created' = cur.sample_data_created
                /\ UNCHANGED <<ofda, histo, dbUp>>

\* get_data_source_comparison with its default apply_date_range
GetDataSourceComparison ==
    /\ Idle
    /\ UNCHANGED <<threadVars, serviceVars>>
    /\ \E d1 \in DebutArgs, d2 \in FinArgs, sa \in SaOutcomes :
        LET a == Args("get_data_source_comparison", d1, d2, NoFilter, FALSE, TRUE)
            q1 == execute_query(dbUp, connection, engine, sa)
            q2 == execute_query(dbUp, q1.connection, q1.engine, sa)
            histo_of_da_data == get_histo_of_data(a, q2)
        IN  \E draws \in DrawsFor(a, q1) :
            LET cur == get_of_data(a, q1, sample_data_created, draws)
            IN  /\ call' = a
                /\ result' =
                      IF _get_table_insights_raises(cur.df)
                      THEN Raised(~q1.ok \/ ~q2.ok)
                      ELSE [raised |-> FALSE, failed |-> ~q1.ok \/ ~q2.ok,
                            df |-> cur.df, historical |-> histo_of_da_data,
                            columns |-> cur.columns,
                            response |-> data_source_comparison_response(
                                             cur.df, histo_of_da_data)]
                /\ connection' = q2.connection
                /\ engine' = q2.engine
                /\ sample_data_created' = cur.sample_data_created
                /\ UNCHANGED <<ofda, histo, dbUp>>

GetDynamicStatuses ==
    /\ Idle
    /\ UNCHANGED <<threadVars, serviceVars>>
    /\ \E include_historical \in BOOLEAN, sa \in SaOutcomes :
        LET a == Args("get_dynamic_statuses", NULL, NULL, NoFilter,
                      include_historical, FALSE)
            q1 == execute_query(dbUp, connection, engine, sa)
            q2 == IF include_historical
                  THEN execute_query(dbUp, q1.connection, q1.engine, sa)
                  ELSE q1
        IN  /\ call' = a
            /\ result' = [NoResult EXCEPT
                             !.failed = ~q1.ok \/ ~q2.ok,
                             !.response = get_dynamic_statuses(include_historical, q1, q2)]
            /\ connection' = q2.connection
            /\ engine' = q2.engine
            /\ UNCHANGED <<ofda, histo, dbUp, sample_data_created>>

\* the response is serialized and discarded
Return ==
    /\ ~Idle
    /\ UNCHANGED <<threadVars, serviceVars>>
    /\ call' = NoCall
    /\ result' = NoResult
    /\ UNCHANGED <<ofda, histo, dbUp, connection, engine, sample_data_created>>

Next ==
    \/ DbDown
    \/ DbUp
    \/ GetOfData
    \/ GetHistoOfData
    \/ GetCombinedOfData
    \/ GetHistoricalAnalysis
    \/ GetOverviewDashboard
    \/ GetPerformanceAnalytics
    \/ GetDataSourceComparison
    \/ GetDynamicStatuses
    \/ Return

Spec == Init /\ [][Next]_vars

SpecDates == InitDates /\ [][Next]_vars

SpecScenarios == InitScenarios /\ [][Next]_vars

SpecBaseline == InitBaseline /\ [][Next]_vars

SpecJoin == InitJoin /\ [][Next]_vars

SpecAggregates == InitAggregates /\ [][Next]_vars

SpecStatuses == InitStatuses /\ [][Next]_vars

SpecFamilies == InitFamilies /\ [][Next]_vars

(***************************************************************************)
(* get_of_data statement by statement, for requests that run on the shared *)
(* analyzer at the same time.  threads[t] is the request of thread t: pc   *)
(* is the statement it is at, ok and rows what execute_query returned, df  *)
(* what get_of_data returned; engine_reads, reads and connects count the   *)
(* read_sql calls on the engine, the read_sql calls on the pyodbc          *)
(* connection and the _connect calls of its execute_query; reachable tells *)
(* that the database was reachable at the call and has been since;         *)
(* created_at_call is _sample_data_created at the call.                    *)
(***************************************************************************)
ThreadArgs == Args("get_of_data", NULL, NULL, NoFilter, FALSE, TRUE)

NoRequest ==
    [pc |-> "idle", ok |-> FALSE, rows |-> <<>>, df |-> <<>>, engine_reads |-> 0,
     reads |-> 0, connects |-> 0, reachable |-> FALSE, created_at_call |-> FALSE]

\* execute_query returns to get_of_data
Fetched(th, ok) ==
    [th EXCEPT !.pc = "fetched", !.ok = ok,
               !.rows = IF ok THEN OfDataQuery(ThreadArgs) ELSE <<>>]

\* where execute_query goes after a read_sql on the pyodbc connection raised:
\* the first time to the reconnect of its except clause, the second time to
\* return pd.DataFrame(); and the same without the reconnect, and with a
\* reconnect after every failure
AfterFailedRead_GiveUp(reads) == "fetched"
AfterFailedRead_Retry(reads) == "recover"
AfterFailedRead(reads) == IF reads = 1 THEN "recover" ELSE "fetched"

StartRequest(t) ==
    /\ threads[t].pc = "idle"
    /\ threads' = [threads EXCEPT ![t] =
                      [NoRequest EXCEPT !.pc = "engine", !.reachable = dbUp,
                                        !.created_at_call = sample_data_created]]
    /\ UNCHANGED <<ofda, histo, dbUp, connection, engine, sample_data_created, call,
                   result, serviceVars>>

\* if self.engine: try: return pd.read_sql(text(query), self.engine) except: ...
EngineRead(t) ==
    LET th == threads[t]
    IN  /\ th.pc = "engine"
        /\ threads' = [threads EXCEPT ![t] =
              IF engine = "Ok"
              THEN IF dbUp THEN Fetched([th EXCEPT !.engine_reads = @ + 1], TRUE)
                   ELSE [th EXCEPT !.engine_reads = @ + 1, !.pc = "connection"]
              ELSE [th EXCEPT !.pc = "connection"]]
        /\ UNCHANGED <<ofda, histo, dbUp, connection, engine, sample_data_created,
                       call, result, serviceVars>>

\* if not self.connection: self._connect()
CheckConnection(t) ==
    LET th == threads[t]
    IN  /\ th.pc = "connection"
        /\ IF connection = "None"
           THEN \E sa \in BOOLEAN :
                  /\ connection' = _connect(dbUp, sa).connection
                  /\ engine' = _connect(dbUp, sa).engine
                  /\ threads' = [threads EXCEPT ![t] =
                        [th EXCEPT !.connects = @ + 1, !.pc = "connected"]]
           ELSE /\ threads' = [threads EXCEPT ![t] = [th EXCEPT !.pc = "read"]]
                /\ UNCHANGED <<connection, engine>>
        /\ UNCHANGED <<ofda, histo, dbUp, sample_data_created, call, result,
                       serviceVars>>

\* if not self.connection: return pd.DataFrame()
AfterConnect(t) ==
    LET th == threads[t]
    IN  /\ th.pc = "connected"
        /\ threads' = [threads EXCEPT ![t] =
              IF connection = "None" THEN Fetched(th, FALSE)
              ELSE [th EXCEPT !.pc = "read"]]
        /\ UNCHANGED <<ofda, histo, dbUp, connection, engine, sample_data_created,
                       call, result, serviceVars>>

\* try: return pd.read_sql(query, self.connection) except: ...  (both tries;
\* a connection another thread has set to None makes read_sql raise too)
PyodbcRead(t) ==
    LET th == [threads[t] EXCEPT !.reads = @ + 1]
    IN  /\ th.pc = "read"
        /\ threads' = [threads EXCEPT ![t] =
              IF connection = "Live" /\ dbUp THEN Fetched(th, TRUE)
              ELSE IF AfterFailedRead(th.reads) = "recover"
                   THEN [th EXCEPT !.pc = "recover"]
                   ELSE Fetched(th, FALSE)]
        /\ UNCHANGED <<ofda, histo, dbUp, connection, engine, sample_data_created,
                       call, result, serviceVars>>

\* except Exception: self._connect()
Reconnect(t) ==
    LET th == threads[t]
    IN  /\ th.pc = "recover"
        /\ \E sa \in BOOLEAN :
              /\ connection' = _connect(dbUp, sa).connection
              /\ engine' = _connect(dbUp, sa).engine
        /\ threads' = [threads EXCEPT ![t] =
              [th EXCEPT !.connects = @ + 1, !.pc = "recovered"]]
        /\ UNCHANGED <<ofda, histo, dbUp, sample_data_created, call, result,
                       serviceVars>>

\* if self.connection: try: ...   else: return pd.DataFrame()
AfterReconnect(t) ==
    LET th == threads[t]
    IN  /\ th.pc = "recovered"
        /\ threads' = [threads EXCEPT ![t] =
              IF connection = "None" THEN Fetched(th, FALSE)
              ELSE [th EXCEPT !.pc = "read"]]
        /\ UNCHANGED <<ofda, histo, dbUp, connection, engine, sample_data_created,
                       call, result, serviceVars>>

\* line 285: if df.empty and not hasattr(self, '_sample_data_created'); when
\* the test fails the request runs on to its return
SampleCheck(t) ==
    LET th == threads[t]
        q == [ok |-> th.ok]
    IN  /\ th.pc = "fetched"
        /\ threads' = [threads EXCEPT ![t] =
              IF get_of_data_substitutes(ThreadArgs, q, sample_data_created)
              THEN [th EXCEPT !.pc = "fabricate"]
              ELSE [th EXCEPT !.pc = "done",
                              !.df = get_of_data(ThreadArgs, q, TRUE,
                                                 CHOOSE d \in SampleFrames : TRUE).df]]
        /\ UNCHANGED <<ofda, histo, dbUp, connection, engine, sample_data_created,
                       call, result, serviceVars>>

\* lines 286-288 and the rest of get_of_data: df = self._create_sample_data();
\* self._sample_data_created = True
Fabricate(t) ==
    LET th == threads[t]
    IN  /\ th.pc = "fabricate"
        /\ \E draws \in SampleFrames :
              threads' = [threads EXCEPT ![t] =
                  [th EXCEPT !.pc = "done",
                             !.df = get_of_data(ThreadArgs, [ok |-> th.ok], FALSE,
                                                draws).df]]
        /\ sample_data_created' = TRUE
        /\ UNCHANGED <<ofda, histo, dbUp, connection, engine, call, result,
                       serviceVars>>

\* the caller takes the frame
ReturnRequest(t) ==
    /\ threads[t].pc = "done"
    /\ threads' = [threads EXCEPT ![t] = NoRequest]
    /\ UNCHANGED <<ofda, histo, dbUp, connection, engine, sample_data_created, call,
                   result, serviceVars>>

\* the database becomes unreachable while requests run
Outage ==
    /\ dbUp
    /\ dbUp' = FALSE
    /\ connection' = IF connection = "Live" THEN "Stale" ELSE connection
    /\ threads' = [t \in DOMAIN threads |-> [threads[t] EXCEPT !.reachable = FALSE]]
    /\ UNCHANGED <<ofda, histo, engine, sample_data_created, call, result,
                   serviceVars>>

NextThreads ==
    \/ \E t \in DOMAIN threads : StartRequest(t)
    \/ \E t \in DOMAIN threads : EngineRead(t)
    \/ \E t \in DOMAIN threads : CheckConnection(t)
    \/ \E t \in DOMAIN threads : AfterConnect(t)
    \/ \E t \in DOMAIN threads : PyodbcRead(t)
    \/ \E t \in DOMAIN threads : Reconnect(t)
    \/ \E t \in DOMAIN threads : AfterReconnect(t)
    \/ \E t \in DOMAIN threads : SampleCheck(t)
    \/ \E t \in DOMAIN threads : Fabricate(t)
    \/ \E t \in DOMAIN threads : ReturnRequest(t)
    \/ Outage
    \/ DbUp

\* gpao.OF_DA empty or holding one order
ThreadTables == { <<>>, <<BaseActive>> }

InitThreads(n) ==
    /\ ofda \in ThreadTables
    /\ histo = <<>>
    /\ ServiceInit
    /\ dbUp \in BOOLEAN
    /\ \E sa \in BOOLEAN :
          /\ connection = _connect(dbUp, sa).connection
          /\ engine = _connect(dbUp, sa).engine
    /\ sample_data_created = FALSE
    /\ call = NoCall
    /\ result = NoResult
    /\ threads = [t \in 1..n |-> NoRequest]

\* one request at a time
InitRequest == InitThreads(1)
SpecRequest == InitRequest /\ [][NextThreads]_vars

\* two requests on the analyzer get_analyzer hands out
InitConcurrent == InitThreads(2)
SpecConcurrent == InitConcurrent /\ [][NextThreads]_vars

(***************************************************************************)
(* ProductionNotificationService: the three checks, each one run of an     *)
(* async method (send_production_order_notification awaits nothing, so a   *)
(* run is not interleaved with another).  now is the day of the clock;     *)
(* sent_notifications maps a key <<type, order, day>> (day 0 for a         *)
(* completion key, which carries no date) to the day it was recorded;      *)
(* emails counts, per <<type, order, day of sending>>, the notifications   *)
(* send_production_order_notification reported as sent; cleaned tells      *)
(* whether cleanup_old_notifications has run.                              *)
(***************************************************************************)
OverdueWindow == 30
UrgentWindow == 7
CompletionWindow == 1
DaysToKeep == 7

\* get_comprehensive_of_data(start_date, current_date, statut)
ComprehensiveArgs(window, statut) ==
    Args("get_comprehensive_of_data", now - window, now,
         [NoFilter EXCEPT !.statut_filter = statut], TRUE, TRUE)

\* notification_key not in self.sent_notifications, and its negation dropped
AlreadySent_Never(sent, key) == FALSE
AlreadySent(sent, key) == key \in DOMAIN sent

\* self.sent_notifications[notification_key] = datetime.now()
Record(sent, key) ==
    [k \in DOMAIN sent \cup {key} |-> IF k = key THEN now ELSE sent[k]]

\* one more notification of this type reported as sent for the order today
Deliver(mail, type, order_id) ==
    LET key == <<type, order_id, now>>
    IN  [k \in DOMAIN mail \cup {key} |->
            IF k = key THEN (IF key \in DOMAIN mail THEN mail[key] + 1 ELSE 1)
            ELSE mail[k]]

\* the condition under which a row is notified as overdue and as urgent;
\* a comparison with a missing production_progress is false
IsOverdue(order) ==
    /\ now - order.LANCEMENT_AU_PLUS_TARD > 0
    /\ FLt(order.Avancement_PROD, FOne)

IsUrgent(order) ==
    LET days_until_due == order.LANCEMENT_AU_PLUS_TARD - now
        progress == order.Avancement_PROD
    IN  \/ 0 <= days_until_due /\ days_until_due <= 2 /\ FLt(progress, <<7, 10>>)
        \/ days_until_due <= 5 /\ FLt(progress, <<3, 10>>)
        \/ FGt(progress, FZero) /\ FLt(progress, <<9, 10>>) /\ days_until_due <= 3

\* the first loop of check_and_send_overdue_notifications and of
\* check_and_send_urgent_notifications from row i on: the rows to notify and
\* the keys recorded for them.  parses tells whether LANCEMENT_AU_PLUS_TARD
\* reads as a '%Y-%m-%d' string; a row without a due date or whose due date
\* does not parse is skipped.
RECURSIVE SelectOrders(_, _, _, _, _)
SelectOrders(type, data, i, sent, parses) ==
    IF i > Len(data) THEN [sent |-> sent, orders |-> <<>>]
    ELSE LET order == data[i]
             key == <<type, order.NUMERO_OFDA, now>>
             selected ==
                 /\ order.LANCEMENT_AU_PLUS_TARD # NULL
                 /\ parses
                 /\ IF type = "overdue" THEN IsOverdue(order) ELSE IsUrgent(order)
                 /\ ~AlreadySent(sent, key)
             rest == SelectOrders(type, data, i + 1,
                                  IF selected THEN Record(sent, key) ELSE sent, parses)
         IN  [sent |-> rest.sent,
              orders |-> IF selected THEN <<order.NUMERO_OFDA>> \o rest.orders
                         ELSE rest.orders]

\* the second loop: success[i] is what send_production_order_notification
\* returned for the i-th order
RECURSIVE SendAll(_, _, _, _, _)
SendAll(type, orders, i, success, mail) ==
    IF i > Len(orders) THEN mail
    ELSE SendAll(type, orders, i + 1, success,
                 IF success[i] THEN Deliver(mail, type, orders[i]) ELSE mail)

\* the loop of check_and_send_completion_notifications from row i on: the key
\* is recorded when the notification was sent
RECURSIVE CompletionLoop(_, _, _, _, _)
CompletionLoop(data, i, success, sent, mail) ==
    IF i > Len(data) THEN [sent |-> sent, emails |-> mail]
    ELSE LET key == <<"completion", data[i].NUMERO_OFDA, 0>>
             sentNow == ~AlreadySent(sent, key) /\ success[i]
         IN  CompletionLoop(data, i + 1, success,
                            IF sentNow THEN Record(sent, key) ELSE sent,
                            IF sentNow THEN Deliver(mail, "completion", data[i].NUMERO_OFDA)
                            ELSE mail)

\* no notification has been reported twice (the runs stop there)
NoCopy == \A k \in DOMAIN emails : emails[k] < 2

CheckAndSend(type, window) ==
    /\ NoCopy
    /\ \E sa \in SaOutcomes, parses \in BOOLEAN :
        LET comb == get_combined_of_data(ComprehensiveArgs(window, "C"),
                                         dbUp, connection, engine, sa)
            loop == SelectOrders(type, comb.df, 1, sent_notifications, parses)
        IN  /\ connection' = comb.connection
            /\ engine' = comb.engine
            /\ sent_notifications' = loop.sent
            /\ \E success \in [1..Len(loop.orders) -> BOOLEAN] :
                  emails' = SendAll(type, loop.orders, 1, success, emails)
    /\ UNCHANGED <<ofda, histo, dbUp, sample_data_created, call, result, threadVars,
                   now, cleaned>>

check_and_send_overdue_notifications == CheckAndSend("overdue", OverdueWindow)

check_and_send_urgent_notifications == CheckAndSend("urgent", UrgentWindow)

check_and_send_completion_notifications ==
    /\ NoCopy
    /\ \E sa \in SaOutcomes :
        LET comb == get_combined_of_data(ComprehensiveArgs(CompletionWindow, "H"),
                                         dbUp, connection, engine, sa)
        IN  /\ connection' = comb.connection
            /\ engine' = comb.engine
            /\ \E success \in [1..Len(comb.df) -> BOOLEAN] :
                  LET loop == CompletionLoop(comb.df, 1, success, sent_notifications,
                                             emails)
                  IN  /\ sent_notifications' = loop.sent
                      /\ emails' = loop.emails
    /\ UNCHANGED <<ofda, histo, dbUp, sample_data_created, call, result, threadVars,
                   now, cleaned>>

\* cleanup_old_notifications(days_to_keep): the records older than the cutoff
\* are deleted
cleanup_old_notifications ==
    /\ sent_notifications' =
          [k \in { key \in DOMAIN sent_notifications :
                     ~(sent_notifications[key] < now - DaysToKeep) } |->
              sent_notifications[k]]
    /\ cleaned' = TRUE
    /\ UNCHANGED <<ofda, histo, dbUp, connection, engine, sample_data_created, call,
                   result, threadVars, now, emails>>

\* the next day
Tick ==
    /\ now < MaxDate
    /\ now' = now + 1
    /\ UNCHANGED <<ofda, histo, dbUp, connection, engine, sample_data_created, call,
                   result, threadVars, sent_notifications, emails, cleaned>>

\* an active order in progress or complete, beside a historical order with
\* its number or another one, complete or not
NotificationTables ==
    { <<a, h>> :
        a \in { <<>>, <<BaseActive>>, <<[BaseActive EXCEPT !.CUMUL_ENTREES = 100]>> },
        h \in { <<>>, <<BaseHisto>>,
                <<[BaseHisto EXCEPT !.NUMERO_OFDA = "F1000", !.CUMUL_ENTREES = 50]>> } }

InitNotifications ==
    /\ \E t \in NotificationTables : ofda = t[1] /\ histo = t[2]
    /\ AnalyzerInit

NextNotifications ==
    \/ check_and_send_overdue_notifications
    \/ check_and_send_urgent_notifications
    \/ check_and_send_completion_notifications
    \/ cleanup_old_notifications
    \/ Tick
    \/ DbDown
    \/ DbUp

SpecNotifications == InitNotifications /\ [][NextNotifications]_vars

(***************************************************************************)
(* Properties.                                                             *)
(***************************************************************************)
\* a returned row that was read from a table (the fabricated rows carry a
\* SECTEUR no query ever returns)
FromTable(row) == row.SECTEUR = "Non défini"

\* the call returned the frame of get_of_data
ReturnsOfData ==
    \/ call.op \in {"get_of_data", "get_historical_analysis",
                    "get_performance_analytics"}
    \/ call.op = "get_overview_dashboard" /\ ~call.include_historical

\* the call returned the frame of get_histo_of_data beside it
ReturnsBoth == call.op \in {"get_historical_analysis", "get_performance_analytics"}

\* the call returned the frame of get_combined_of_data
ReturnsCombined ==
    \/ call.op = "get_combined_of_data"
    \/ call.op = "get_overview_dashboard" /\ call.include_historical

DurationOverrun(row) ==
    row.DUREE_PREVUE > 0 /\ row.CUMUL_TEMPS_PASSES > row.DUREE_PREVUE

\* C1: every active-source order returned under the deadline policy
\* (get_of_data) or the launch policy (get_of_data_with_lance_le_filter) has
\* time_alert true exactly when planned_duration > 0 and time_spent >
\* planned_duration.
C1_TimeAlertRule ==
    (ReturnsOfData \/ ReturnsCombined) =>
        \A i \in 1..Len(result.df) :
            (result.df[i].DATA_SOURCE = "ACTIVE" /\ FromTable(result.df[i])) =>
                (result.df[i].Alerte_temps <=> DurationOverrun(result.df[i]))

\* C2: get_of_data returns only rows of the active table; when its query
\* yields no rows the result is empty, never fabricated sample data.
C2_NoFabricatedRows ==
    call.op = "get_of_data" =>
        \A i \in 1..Len(result.df) :
            /\ FromTable(result.df[i])
            /\ \E j \in 1..Len(ofda) : ofda[j].NUMERO_OFDA = result.df[i].NUMERO_OFDA

\* C3: when the query layer fails during a call, the call ends with an error
\* reaching the caller, not with an ordinary (empty) result.
C3_FailurePropagates == result.failed => result.raised

\* x lies in [lo, hi], bounds inclusive, an omitted bound not restricting
InRange(x, lo, hi) ==
    /\ (lo = NULL \/ (x # NULL /\ x >= lo))
    /\ (hi = NULL \/ (x # NULL /\ x <= hi))

\* the date range the call filters with
EffDebut ==
    IF /\ call.op \in {"get_overview_dashboard", "get_performance_analytics"}
       /\ ~call.apply_date_range
    THEN NULL
    ELSE call.date_debut
EffFin ==
    IF /\ call.op \in {"get_overview_dashboard", "get_performance_analytics"}
       /\ ~call.apply_date_range
    THEN NULL
    ELSE call.date_fin
EffCall == [call EXCEPT !.date_debut = EffDebut, !.date_fin = EffFin]

\* source and order number of the rows of a frame that were read from a table
Keys(df) ==
    { <<df[i].DATA_SOURCE, df[i].NUMERO_OFDA>> :
          i \in { k \in 1..Len(df) : FromTable(df[k]) } }
\* the same, marking fabricated rows
KeysAll(df) ==
    { <<df[i].DATA_SOURCE, df[i].NUMERO_OFDA, FromTable(df[i])>> : i \in 1..Len(df) }

\* the subset the deadline-policy merge selected (get_of_data +
\* get_histo_of_data, as get_historical_analysis returned them)
DeadlineSubset == KeysAll(result.df) \cup KeysAll(result.historical)
\* the subset the launch-policy merge selects for the same date range on the
\* same tables
LaunchSubset ==
    KeysAll(get_combined_of_data([call EXCEPT !.include_historical = TRUE],
                                 dbUp, connection, engine, TRUE).df)

\* some order has a launch_deadline and a launch_actual_date that differ
DatesDiverge ==
    \/ \E j \in 1..Len(ofda) :
          /\ ofda[j].LANCEMENT_AU_PLUS_TARD # NULL /\ ofda[j].LANCE_LE # NULL
          /\ ofda[j].LANCEMENT_AU_PLUS_TARD # ofda[j].LANCE_LE
    \/ \E j \in 1..Len(histo) :
          /\ histo[j].LANCEMENT_AU_PLUS_TARD # NULL /\ histo[j].LANCE_LE # NULL
          /\ histo[j].LANCEMENT_AU_PLUS_TARD # histo[j].LANCE_LE

\* some order is inside the range by the date one policy filters on and
\* outside it by the other's
SomeRowSplit ==
    \/ \E j \in 1..Len(ofda) :
          /\ LikeF(ofda[j].NUMERO_OFDA)
          /\ InRange(ofda[j].LANCEMENT_AU_PLUS_TARD, call.date_debut, call.date_fin)
             # InRange(ofda[j].LANCE_LE, call.date_debut, call.date_fin)
    \/ \E j \in 1..Len(histo) :
          /\ LikeF(histo[j].NUMERO_OFDA)
          /\ InRange(histo[j].DATE_CLOTURE, call.date_debut, call.date_fin)
             # InRange(histo[j].LANCE_LE, call.date_debut, call.date_fin)

Present(df, source, numero) ==
    \E i \in 1..Len(df) :
        /\ df[i].DATA_SOURCE = source
        /\ df[i].NUMERO_OFDA = numero
        /\ FromTable(df[i])

\* C5: under the deadline policy an active row is selected iff its
\* launch_deadline lies in [date_debut, date_fin] and a historical row iff its
\* closure_date does; under the launch policy a row of either source is
\* selected iff its launch_actual_date does.  Bounds are inclusive, an omitted
\* bound does not restrict.  (Rows that the call's other conditions admit,
\* calls without an alert filter, queries that succeeded, calls that returned
\* a response.)
C5_DateSelection ==
    (~result.failed /\ ~result.raised /\ call.alerte_filter = "None") =>
        /\ ReturnsOfData =>
              \A j \in 1..Len(ofda) : ActiveWhere(ofda[j], call) =>
                  (Present(result.df, "ACTIVE", ofda[j].NUMERO_OFDA)
                      <=> InRange(ofda[j].LANCEMENT_AU_PLUS_TARD, EffDebut, EffFin))
        /\ (call.op = "get_histo_of_data" \/ ReturnsBoth) =>
              \A j \in 1..Len(histo) : HistoWhere(histo[j], call) =>
                  (Present(IF call.op = "get_histo_of_data" THEN result.df
                           ELSE result.historical,
                           "HISTORICAL", histo[j].NUMERO_OFDA)
                      <=> InRange(histo[j].DATE_CLOTURE, EffDebut, EffFin))
        /\ ReturnsCombined =>
              /\ \A j \in 1..Len(ofda) : ActiveWhere(ofda[j], call) =>
                    (Present(result.df, "ACTIVE", ofda[j].NUMERO_OFDA)
                        <=> InRange(ofda[j].LANCE_LE, EffDebut, EffFin))
              /\ \A j \in 1..Len(histo) : HistoWhere(histo[j], call) =>
                    (Present(result.df, "HISTORICAL", histo[j].NUMERO_OFDA)
                        <=> (call.include_historical
                             /\ InRange(histo[j].LANCE_LE, EffDebut, EffFin)))

\* a launch-policy call that selected an active order launched on the upper
\* bound whose deadline is after it, and a historical order launched inside
\* the range whose closure date is after it
C5_Witness ==
    /\ call.op = "get_combined_of_data"
    /\ call.include_historical
    /\ ~result.failed
    /\ call.date_fin # NULL /\ call.date_debut = NULL
    /\ \E j \in 1..Len(ofda) :
          /\ ofda[j].LANCE_LE = call.date_fin
          /\ ofda[j].LANCEMENT_AU_PLUS_TARD > call.date_fin
          /\ Present(result.df, "ACTIVE", ofda[j].NUMERO_OFDA)
    /\ \E j \in 1..Len(histo) :
          /\ histo[j].LANCE_LE <= call.date_fin
          /\ histo[j].DATE_CLOTURE > call.date_fin
          /\ Present(result.df, "HISTORICAL", histo[j].NUMERO_OFDA)

\* C6: in get_overview_dashboard, for the same date range and filters, the
\* set of active-source orders in the result is the same whether
\* include_historical is true or false.
C6_FlagKeepsActiveSet ==
    (call.op = "get_overview_dashboard" /\ call.include_historical /\ ~result.failed) =>
        \A draws \in SampleFrames :
            { k \in Keys(result.df) : k[1] = "ACTIVE" }
            = Keys(get_of_data(EffCall, [ok |-> TRUE], sample_data_created, draws).df)

\* every row the call returned
AllRows ==
    { result.df[i] : i \in 1..Len(result.df) }
    \cup { result.historical[i] : i \in 1..Len(result.historical) }

\* C7: in every returned row production_progress and time_progress are finite
\* and >= 0, never NaN, also with a zero or null denominator or a null
\* numerator.
C7_ProgressFinite ==
    \A row \in AllRows : IsNum(row.Avancement_PROD) /\ IsNum(row.Avancement_temps)

\* C8: every returned row, whichever source and policy produced it, has an
\* efficiency: 1.0 when time_progress is 0 and production_progress is not
\* null, production_progress / time_progress otherwise.
C8_EfficiencyEverywhere ==
    \A row \in AllRows :
        /\ row.EFFICACITE # Absent
        /\ row.EFFICACITE =
              IF row.Avancement_temps = FZero /\ IsNum(row.Avancement_PROD)
              THEN FOne
              ELSE FDiv(row.Avancement_PROD, row.Avancement_temps)

\* the frame the call returned historical-source rows in
HistoricalPart ==
    IF ReturnsBoth THEN result.historical ELSE result.df

\* C9: every historical-source order, under either date policy and in the
\* merged collection, has data_source HISTORICAL, completion_status COMPLETED
\* and time_alert false, whatever its time_spent, planned_duration and status.
C9_HistoricalTags ==
    LET part == HistoricalPart
        tagged == { i \in 1..Len(part) : part[i].DATA_SOURCE = "HISTORICAL" }
        selected == { j \in 1..Len(histo) :
                        /\ HistoWhere(histo[j], call)
                        /\ InRange(IF ReturnsCombined THEN histo[j].LANCE_LE
                                   ELSE histo[j].DATE_CLOTURE, EffDebut, EffFin) }
    IN  /\ \A i \in tagged :
              /\ part[i].COMPLETION_STATUS = "COMPLETED"
              /\ part[i].Alerte_temps = FALSE
        /\ (call.op = "get_histo_of_data" \/ ReturnsBoth) =>
              tagged = 1..Len(part)
        /\ (~result.failed /\ call.include_historical
              /\ (call.op = "get_histo_of_data" \/ ReturnsCombined)) =>
              Cardinality(tagged) = Cardinality(selected)

\* a merged collection holding an active order and a historical order that is
\* over its planned duration and whose status is still "in progress"
C9_Witness ==
    /\ call.op = "get_combined_of_data"
    /\ \E i \in 1..Len(result.df) : result.df[i].DATA_SOURCE = "ACTIVE"
    /\ \E i \in 1..Len(result.df) :
          /\ result.df[i].DATA_SOURCE = "HISTORICAL"
          /\ result.df[i].STATUT = "C"
          /\ result.df[i].DUREE_PREVUE > 0
          /\ result.df[i].CUMUL_TEMPS_PASSES > result.df[i].DUREE_PREVUE
          /\ result.df[i].COMPLETION_STATUS = "COMPLETED"
          /\ ~result.df[i].Alerte_temps

\* the historical rows of a (product, category) pair with time_spent > 0 and
\* quantity_produced > 0
EligibleSet(produit, categorie) ==
    { j \in 1..Len(histo) :
        /\ histo[j].PRODUIT = produit
        /\ histo[j].CATEGORIE = categorie
        /\ histo[j].CUMUL_TEMPS_PASSES > 0
        /\ histo[j].CUMUL_ENTREES > 0 }

RECURSIVE SumOfUnitTimes(_)
SumOfUnitTimes(E) ==
    IF E = {} THEN FZero
    ELSE LET j == CHOOSE k \in E : TRUE
         IN  FAdd(Frac(histo[j].CUMUL_TEMPS_PASSES, histo[j].CUMUL_ENTREES),
                  SumOfUnitTimes(E \ {j}))

\* avg is the mean of time_spent / quantity_produced over E
IsMeanOver(avg, E) ==
    /\ IsNum(avg)
    /\ Frac(avg[1] * Cardinality(E), avg[2]) = SumOfUnitTimes(E)

\* C10: the baseline average of a (product, category) pair is the mean of
\* time_spent / quantity_produced over exactly the historical rows of the pair
\* with time_spent > 0 and quantity_produced > 0; rows with zero quantity or
\* zero time are left out of the mean, not counted as zero.  Stated of the
\* baseline every returned active order carries and of every pair of the
\* historical table.
C10_BaselineAverage ==
    /\ (ReturnsOfData \/ ReturnsCombined) =>
          \A i \in 1..Len(result.df) :
              LET row == result.df[i]
                  E == EligibleSet(row.PRODUIT, row.FAMILLE_TECHNIQUE)
              IN  (row.DATA_SOURCE = "ACTIVE" /\ FromTable(row) /\ E # {}) =>
                      IsMeanOver(row.TEMPS_UNITAIRE_HISTORIQUE, E)
    /\ \A j \in 1..Len(histo) :
          LET E == EligibleSet(histo[j].PRODUIT, histo[j].CATEGORIE)
          IN  E # {} => IsMeanOver(HistAvg(histo, histo[j].PRODUIT, histo[j].CATEGORIE), E)

\* an active order whose baseline is 3 although a row of its pair with nothing
\* produced is in the historical table
C10_Witness ==
    /\ call.op = "get_of_data"
    /\ \E j \in 1..Len(histo) :
          /\ histo[j].PRODUIT = "P1" /\ histo[j].CATEGORIE = "FAM1"
          /\ histo[j].CUMUL_ENTREES = 0
    /\ \E i \in 1..Len(result.df) :
          /\ FromTable(result.df[i])
          /\ result.df[i].PRODUIT = "P1" /\ result.df[i].FAMILLE_TECHNIQUE = "FAM1"
          /\ result.df[i].TEMPS_UNITAIRE_HISTORIQUE = <<3, 1>>

\* the eligible historical rows (time_spent > 0 and quantity_produced > 0) of
\* a (product, category) pair, a missing category being the sentinel category
EligibleOfPair(produit, famille) ==
    { j \in 1..Len(histo) :
        /\ histo[j].PRODUIT = produit
        /\ Coalesce(histo[j].CATEGORIE, "Non définie") = famille
        /\ histo[j].CUMUL_TEMPS_PASSES > 0
        /\ histo[j].CUMUL_ENTREES > 0 }

\* the baseline join result of a pair: its baseline average, 0 without an
\* eligible row
IsJoinResult(value, produit, famille) ==
    LET E == EligibleOfPair(produit, famille)
    IN  IF E = {} THEN value = FZero ELSE IsMeanOver(value, E)

\* C11: every returned active order carries as historical_unit_time the
\* baseline average of its (product, category) pair when the pair has an
\* eligible historical row, also when the category is absent in both sources
\* (the sentinel category), and 0 when it has none.
C11_BaselineJoin ==
    (ReturnsOfData \/ ReturnsCombined) =>
        \A i \in 1..Len(result.df) :
            (result.df[i].DATA_SOURCE = "ACTIVE" /\ FromTable(result.df[i])) =>
                IsJoinResult(result.df[i].TEMPS_UNITAIRE_HISTORIQUE,
                             result.df[i].PRODUIT, result.df[i].FAMILLE_TECHNIQUE)

\* C12: every returned historical-source order carries as
\* historical_unit_time the baseline join result of its (product, category)
\* pair: the average over the eligible historical rows of the pair, 0 when
\* there is none.
C12_HistoricalUnitTime ==
    \A row \in AllRows :
        row.DATA_SOURCE = "HISTORICAL" =>
            IsJoinResult(row.TEMPS_UNITAIRE_HISTORIQUE, row.PRODUIT,
                         row.FAMILLE_TECHNIQUE)

\* the rows of each table a launch-policy call selects: those its WHERE
\* conditions admit whose launch_actual_date is in the range and, for active
\* orders, whose alert matches the alert filter
ActiveSelected ==
    { j \in 1..Len(ofda) :
        /\ ActiveWhere(ofda[j], call)
        /\ InRange(ofda[j].LANCE_LE, EffDebut, EffFin)
        /\ call.alerte_filter = "True" => DurationOverrun(ofda[j])
        /\ call.alerte_filter = "False" => ~DurationOverrun(ofda[j]) }
HistoSelected ==
    { j \in 1..Len(histo) :
        /\ HistoWhere(histo[j], call)
        /\ InRange(histo[j].LANCE_LE, EffDebut, EffFin) }

\* row is the table row r returned with the tag source
IsRowOf(row, r, source) ==
    /\ row.DATA_SOURCE = source
    /\ row.NUMERO_OFDA = r.NUMERO_OFDA
    /\ row.PRODUIT = r.PRODUIT
    /\ row.STATUT = r.STATUT
    /\ row.LANCEMENT_AU_PLUS_TARD = r.LANCEMENT_AU_PLUS_TARD
    /\ row.LANCE_LE = r.LANCE_LE
    /\ row.QUANTITE_DEMANDEE = r.QUANTITE_DEMANDEE
    /\ row.CUMUL_ENTREES = r.CUMUL_ENTREES
    /\ row.DUREE_PREVUE = r.DUREE_PREVUE
    /\ row.CUMUL_TEMPS_PASSES = r.CUMUL_TEMPS_PASSES

\* C13: get_combined_of_data with include_historical = true returns exactly
\* the selected active rows and the selected historical rows: as many rows as
\* the two selections together, each selected row with its data_source tag
\* and its fields, an order number of both sources once per source, and the
\* other selection alone when one is empty.
C13_MergeKeepsBoth ==
    (ReturnsCombined /\ call.include_historical /\ ~result.failed) =>
        LET df == result.df
            tagged(source) == { i \in 1..Len(df) : df[i].DATA_SOURCE = source }
        IN  /\ Len(df) = Cardinality(ActiveSelected) + Cardinality(HistoSelected)
            /\ Cardinality(tagged("ACTIVE")) = Cardinality(ActiveSelected)
            /\ Cardinality(tagged("HISTORICAL")) = Cardinality(HistoSelected)
            /\ \A j \in ActiveSelected :
                  \E i \in tagged("ACTIVE") : IsRowOf(df[i], ofda[j], "ACTIVE")
            /\ \A j \in HistoSelected :
                  \E i \in tagged("HISTORICAL") : IsRowOf(df[i], histo[j], "HISTORICAL")

\* a merged collection holding order F1000 once as an active and once as a
\* historical order
C13_Witness ==
    /\ call.op = "get_combined_of_data"
    /\ call.include_historical
    /\ \E i \in 1..Len(result.df) : IsRowOf(result.df[i], BaseActive, "ACTIVE")
    /\ \E i \in 1..Len(result.df) :
          /\ result.df[i].DATA_SOURCE = "HISTORICAL"
          /\ result.df[i].NUMERO_OFDA = "F1000"

\* C14: the merged collection get_combined_of_data returns is sorted in
\* descending launch_deadline order across both sources: of two adjacent rows
\* (with a launch_deadline) the earlier one has the later or the same deadline.
C14_MergedSortedByDeadline ==
    (ReturnsCombined /\ ~result.failed) =>
        \A i \in 1..(Len(result.df) - 1) :
            (/\ result.df[i].LANCEMENT_AU_PLUS_TARD # NULL
             /\ result.df[i + 1].LANCEMENT_AU_PLUS_TARD # NULL) =>
                result.df[i].LANCEMENT_AU_PLUS_TARD
                    >= result.df[i + 1].LANCEMENT_AU_PLUS_TARD

\* C15: when the active and the historical selection are both empty, the
\* merge returns an empty collection that has every column of the unified
\* schema, not a table without columns.
C15_EmptyMergeHasSchema ==
    (ReturnsCombined /\ call.include_historical /\ ~result.failed
     /\ result.df = <<>>) =>
        SelectColumns \subseteq result.columns

\* C16: with both tables empty, get_overview_dashboard returns the empty
\* overview response, total_records = 0 and no alerts, for either value of
\* include_historical and on every call, the first one on an analyzer
\* included.
C16_EmptyOverview ==
    (call.op = "get_overview_dashboard" /\ ofda = <<>> /\ histo = <<>>
     /\ ~result.failed) =>
        /\ ~result.raised
        /\ result.response = _empty_overview_response
        /\ result.response.total_records = 0
        /\ result.response.alerts = <<>>

RECURSIVE SumOver(_, _)
SumOver(f, S) ==
    IF S = {} THEN FZero
    ELSE LET x == CHOOSE y \in S : TRUE
         IN  FAdd(f[x], SumOver(f, S \ {x}))

\* C17: for a non-empty collection the percentages of _get_status_distribution
\* are count / len(collection) * 100 for each status code present and sum to
\* 100, whatever the status codes (unlisted codes, rows without status); for
\* an empty collection the distribution is the empty shape.  Stated of the
\* collection get_overview_dashboard aggregates.
C17_StatusPercentages ==
    (call.op = "get_overview_dashboard" /\ ~result.raised) =>
        LET data == result.df
            sd == result.response.status_distribution
            count(st) == Cardinality({ i \in 1..Len(data) : data[i].STATUT = st })
        IN  IF data = <<>> THEN DOMAIN sd = {}
            ELSE /\ \A i \in 1..Len(data) :
                       data[i].STATUT # NONE =>
                           /\ data[i].STATUT \in DOMAIN sd.percentages
                           /\ sd.percentages[data[i].STATUT]
                                  = Frac(count(data[i].STATUT) * 100, Len(data))
                 /\ SumOver(sd.percentages, DOMAIN sd.percentages) = <<100, 1>>

\* C18: _get_overview_alerts returns at most one summary per rule: a
\* time_overrun summary (warning) iff some row has time_alert set, counting
\* those rows, and a low_advancement summary (info) iff some row has
\* production_progress < 0.30 (strict), counting those rows; a rule without a
\* matching row has no entry and an empty collection gives an empty list.
\* Stated of the collection get_overview_dashboard aggregates.
C18_OverviewAlerts ==
    (call.op = "get_overview_dashboard" /\ ~result.raised) =>
        LET data == result.df
            alerts == result.response.alerts
            overrun == { i \in 1..Len(data) : data[i].Alerte_temps }
            low == { i \in 1..Len(data) :
                       /\ IsNum(data[i].Avancement_PROD)
                       /\ data[i].Avancement_PROD[1] * 10 < 3 * data[i].Avancement_PROD[2] }
            entries(type) == { k \in 1..Len(alerts) : alerts[k].type = type }
        IN  /\ \A k \in 1..Len(alerts) : alerts[k].type \in {"time_overrun", "low_advancement"}
            /\ Cardinality(entries("time_overrun")) = (IF overrun # {} THEN 1 ELSE 0)
            /\ Cardinality(entries("low_advancement")) = (IF low # {} THEN 1 ELSE 0)
            /\ \A k \in entries("time_overrun") :
                  alerts[k].severity = "warning" /\ alerts[k].count = Cardinality(overrun)
            /\ \A k \in entries("low_advancement") :
                  alerts[k].severity = "info" /\ alerts[k].count = Cardinality(low)
            /\ data = <<>> => alerts = <<>>

\* an overview over an order late and at 20 % and an order at exactly 30 %:
\* one time_overrun and one low_advancement summary, each counting one order
C18_Witness ==
    /\ call.op = "get_overview_dashboard"
    /\ ~result.raised
    /\ Len(result.df) = 2
    /\ \E i \in 1..2 : result.df[i].Avancement_PROD = <<3, 10>>
    /\ \E i \in 1..2 : result.df[i].Avancement_PROD = <<1, 5>> /\ result.df[i].Alerte_temps
    /\ Len(result.response.alerts) = 2
    /\ \A k \in 1..2 : result.response.alerts[k].count = 1

\* the rows of current_data that have an efficiency: time_progress > 0 and a
\* production_progress
EfficiencyEligible ==
    { i \in 1..Len(result.df) :
        /\ IsNum(result.df[i].Avancement_temps)
        /\ result.df[i].Avancement_temps[1] > 0
        /\ IsNum(result.df[i].Avancement_PROD) }

\* production_progress / time_progress of row i lies in range b; with p = pn/pd
\* and t = tn/td the ratio is (pn * td) / (pd * tn)
RatioInRange(b, i) ==
    LET n == result.df[i].Avancement_PROD[1] * result.df[i].Avancement_temps[2]
        d == result.df[i].Avancement_PROD[2] * result.df[i].Avancement_temps[1]
    IN  CASE b = "below_50%" -> 2 * n < d
          [] b = "50-80%" -> 2 * n >= d /\ 5 * n < 4 * d
          [] b = "80-100%" -> 5 * n >= 4 * d /\ n <= d
          [] b = "above_100%" -> n > d

RECURSIVE SumCounts(_, _)
SumCounts(f, S) ==
    IF S = {} THEN 0
    ELSE LET x == CHOOSE y \in S : TRUE IN f[x] + SumCounts(f, S \ {x})

\* C19: _get_efficiency_trends buckets exactly the current rows with
\* time_progress > 0 and a production_progress: each bucket counts the eligible
\* rows of its range (<0.5, [0.5,0.8), [0.8,1.0], >1.0), every eligible row is
\* in exactly one range, the counts sum to the number of eligible rows;
\* historical rows are in no bucket and appear only as the 100 % completion
\* aggregate.  Stated of get_performance_analytics.
C19_EfficiencyBuckets ==
    (call.op = "get_performance_analytics" /\ ~result.raised) =>
        LET trends == result.response.efficiency_trends
            dist == trends.current_efficiency
        IN  /\ EfficiencyEligible = {} => DOMAIN dist = {}
            /\ EfficiencyEligible # {} =>
                  /\ DOMAIN dist = Buckets
                  /\ \A b \in Buckets :
                        dist[b] = Cardinality({ i \in EfficiencyEligible : RatioInRange(b, i) })
                  /\ SumCounts(dist, Buckets) = Cardinality(EfficiencyEligible)
            /\ \A i \in EfficiencyEligible :
                  Cardinality({ b \in Buckets : RatioInRange(b, i) }) = 1
            /\ IF result.historical = <<>>
               THEN DOMAIN trends.historical_efficiency = {}
               ELSE trends.historical_efficiency = [completion_rate |-> 100]

\* performance analytics over an order without time spent, an order whose
\* efficiency is exactly 1.0 and a historical order: one row in the bucket
\* 80-100 %, none elsewhere
C19_Witness ==
    /\ call.op = "get_performance_analytics"
    /\ ~result.raised
    /\ Len(result.df) = 2
    /\ Len(result.historical) = 1
    /\ Cardinality(EfficiencyEligible) = 1
    /\ result.response.efficiency_trends.current_efficiency["80-100%"] = 1
    /\ \E i \in EfficiencyEligible :
          result.df[i].Avancement_PROD = result.df[i].Avancement_temps

\* C20: the engine keeps no state across calls: what get_of_data returns for
\* given arguments over given table contents is what it returns for them on a
\* freshly constructed analyzer, whatever calls were made before.
C20_Stateless ==
    (call.op = "get_of_data" /\ ~result.failed) =>
        \E draws \in SampleFrames :
            result.df = get_of_data(call, [ok |-> TRUE], FALSE, draws).df

\* C25: a historical row with quantity_produced = 0 is left out of the
\* baseline average of its (product, category) pair, and every such row the
\* query selects is returned by get_histo_of_data with completion_status
\* COMPLETED and counted in total_historical_orders of
\* get_historical_analysis.
C25_ZeroQuantityHistorical ==
    (call.op \in {"get_histo_of_data", "get_historical_analysis"} /\ ~result.failed) =>
        \A j \in 1..Len(histo) :
            (/\ histo[j].CUMUL_ENTREES = 0
             /\ HistoWhere(histo[j], call)
             /\ InRange(histo[j].DATE_CLOTURE, call.date_debut, call.date_fin)) =>
                /\ j \notin EligibleSet(histo[j].PRODUIT, histo[j].CATEGORIE)
                /\ LET avg == HistAvgEligible(histo, histo[j].PRODUIT, histo[j].CATEGORIE)
                   IN  \A k \in 1..Len(avg) : avg[k].CUMUL_ENTREES # 0
                /\ \E i \in 1..Len(HistoricalPart) :
                      /\ HistoricalPart[i].NUMERO_OFDA = histo[j].NUMERO_OFDA
                      /\ HistoricalPart[i].CUMUL_ENTREES = 0
                      /\ HistoricalPart[i].COMPLETION_STATUS = "COMPLETED"
                /\ call.op = "get_historical_analysis" =>
                      /\ result.response.success
                      /\ result.response.data.metrics.total_historical_orders
                             = Len(result.historical)

\* C26: every row get_combined_of_data returns for statut_filter = s (and so
\* every row of get_comprehensive_of_data, which forwards its arguments) has
\* status s, the rows of the historical source included.
C26_StatusFilterOnMerged ==
    (call.op = "get_combined_of_data" /\ call.statut_filter # NONE) =>
        \A i \in 1..Len(result.df) : result.df[i].STATUT = call.statut_filter

\* the order numbers of a frame
OrderNumbers(df) == { df[i].NUMERO_OFDA : i \in 1..Len(df) }

\* C27: for the same active table, the same other filters and the same
\* alerte_filter (true, false or absent), when every row's launch_deadline
\* equals its launch_actual_date, get_of_data and
\* get_of_data_with_lance_le_filter select the same set of order numbers.
\* Stated of every get_of_data call whose query succeeded, against what
\* get_of_data_with_lance_le_filter returns for its arguments.
C27_AlertFilterAgreement ==
    (/\ call.op = "get_of_data"
     /\ ~result.failed
     /\ \A j \in 1..Len(ofda) : ofda[j].LANCEMENT_AU_PLUS_TARD = ofda[j].LANCE_LE) =>
        OrderNumbers(result.df)
            = OrderNumbers(get_of_data_with_lance_le_filter(call, [ok |-> TRUE]))

\* the status codes of the orders of a source (order numbers starting with F)
StatusCodes(table) ==
    { table[i].STATUT : i \in 1..Len(table) } \ {NONE}

StatusCodesF(table) ==
    { st \in StatusCodes(table) :
        \E i \in 1..Len(table) : table[i].STATUT = st /\ LikeF(table[i].NUMERO_OFDA) }

KnownLabel(st) ==
    CASE st = "C" -> "En Cours" [] st = "T" -> "Terminé" [] st = "A" -> "Arrêté"
      [] st = "P" -> "Planifié" [] st = "S" -> "Suspendu" [] st = "F" -> "Fini"
      [] st = "X" -> "Annulé" [] OTHER -> "Statut " \o st

\* status_descriptions labels exactly the codes of all_statuses
DescriptionsLabelAll ==
    LET r == result.response
    IN  /\ DOMAIN r.status_descriptions = r.all_statuses
        /\ \A st \in r.all_statuses : r.status_descriptions[st] = KnownLabel(st)

\* C22 (as stated): get_dynamic_statuses returns all_statuses equal to the
\* union of the distinct status codes of the active source and of the
\* historical source, and status_descriptions maps every code of all_statuses
\* to its fixed label or to 'Statut <code>'.
C22_StatusUnion ==
    (call.op = "get_dynamic_statuses" /\ ~result.failed) =>
        /\ result.response.all_statuses = StatusCodesF(ofda) \cup StatusCodesF(histo)
        /\ DescriptionsLabelAll

\* C22 (amended): all_statuses is the union of the distinct status codes of
\* the active source and, when include_historical is set, of the historical
\* source; without include_historical (the default) the historical source is
\* not read and all_statuses holds the active codes only.  status_descriptions
\* maps every code of all_statuses to its fixed label or to 'Statut <code>'.
C22_StatusUnionWhenIncluded ==
    (call.op = "get_dynamic_statuses" /\ ~result.failed) =>
        /\ result.response.all_statuses
              = StatusCodesF(ofda)
                \cup (IF call.include_historical THEN StatusCodesF(histo) ELSE {})
        /\ DescriptionsLabelAll

\* both sources read: a code in both, and a code without a fixed label in the
\* historical source only
C22_Witness ==
    /\ call.op = "get_dynamic_statuses"
    /\ call.include_historical
    /\ ~result.failed
    /\ "C" \in StatusCodesF(ofda) \cap StatusCodesF(histo)
    /\ "Z" \in StatusCodesF(histo) \ StatusCodesF(ofda)
    /\ result.response.all_statuses = {"C", "Z"}
    /\ result.response.status_descriptions["Z"] = "Statut Z"

\* the rows of a frame whose first quantity exceeds the second (both present)
Exceeding(df, a, b) ==
    { i \in 1..Len(df) : df[i][a] # NULL /\ df[i][b] # NULL /\ df[i][a] > df[i][b] }

\* C24: for each source separately the quality indicators report
\* over_production_count = number of that source's rows with
\* quantity_produced > quantity_requested and time_overrun_count = number of
\* its rows with time_spent > planned_duration; the counts of one source never
\* include rows of the other, and an empty source yields no indicators
\* rather than an error.  Stated of the two frames get_data_source_comparison
\* hands to _analyze_data_quality.
C24_QualityIndicators ==
    (call.op = "get_data_source_comparison" /\ ~result.raised) =>
        LET quality == result.response.data_quality
            Indicators(q, df) ==
                IF df = <<>> THEN q = <<>>
                ELSE /\ q.over_production_count
                           = Cardinality(Exceeding(df, "CUMUL_ENTREES", "QUANTITE_DEMANDEE"))
                     /\ q.time_overrun_count
                           = Cardinality(Exceeding(df, "CUMUL_TEMPS_PASSES", "DUREE_PREVUE"))
        IN  /\ Indicators(quality.of_da_quality, result.df)
            /\ Indicators(quality.histo_of_da_quality, result.historical)

\* an active order on its limits (time spent = planned duration) beside a
\* historical order over both limits: no count for the active source, one of
\* each for the historical source
C24_Witness ==
    /\ call.op = "get_data_source_comparison"
    /\ ~result.raised
    /\ Len(result.df) = 1 /\ Len(result.historical) = 1
    /\ result.df[1].CUMUL_TEMPS_PASSES = result.df[1].DUREE_PREVUE
    /\ result.response.data_quality.of_da_quality.over_production_count = 0
    /\ result.response.data_quality.of_da_quality.time_overrun_count = 0
    /\ result.response.data_quality.histo_of_da_quality.over_production_count = 1
    /\ result.response.data_quality.histo_of_da_quality.time_overrun_count = 1

\* v is the mean of the present values of a column over rows, rounded to 3
\* decimals: a multiple of 1/1000 at most 1/2000 away from the mean
IsMeanTo3Decimals(v, df, rows, column) ==
    LET valued == { i \in rows : IsNum(df[i][column]) }
        total == SumColumn(df, valued, column)
        diff == v[1] * total[2] * Cardinality(valued) - total[1] * v[2]
    IN  IF valued = {} THEN IsNaN(v)
        ELSE /\ IsNum(v)
             /\ 1000 % v[2] = 0
             /\ 2000 * (IF diff < 0 THEN -diff ELSE diff)
                    <= v[2] * total[2] * Cardinality(valued)

\* C23: every normalized row of either source has a category and a client
\* (the sentinel replaces a missing value), so _get_family_breakdown has no
\* null group and its per-category counts sum to the number of rows; each
\* group reports its count and the means of production_progress and of
\* historical_unit_time rounded to 3 decimals.  Stated of the rows every call
\* returns from the tables and of the breakdown get_overview_dashboard builds.
C23_FamilyBreakdown ==
    /\ \A i \in 1..Len(result.df) :
          FromTable(result.df[i]) =>
              result.df[i].FAMILLE_TECHNIQUE # NONE /\ result.df[i].CLIENT # NONE
    /\ \A i \in 1..Len(result.historical) :
          result.historical[i].FAMILLE_TECHNIQUE # NONE /\ result.historical[i].CLIENT # NONE
    /\ (call.op = "get_overview_dashboard" /\ ~result.raised /\ result.df # <<>>) =>
          LET df == result.df
              breakdown == result.response.family_breakdown
              rows(f) == { i \in 1..Len(df) : df[i].FAMILLE_TECHNIQUE = f }
          IN  /\ NONE \notin DOMAIN breakdown
              /\ \A i \in 1..Len(df) : df[i].FAMILLE_TECHNIQUE \in DOMAIN breakdown
              /\ SumCounts([f \in DOMAIN breakdown |-> breakdown[f].NUMERO_OFDA],
                           DOMAIN breakdown) = Len(df)
              /\ \A f \in DOMAIN breakdown :
                    /\ breakdown[f].NUMERO_OFDA = Cardinality(rows(f))
                    /\ IsMeanTo3Decimals(breakdown[f].Avancement_PROD, df, rows(f),
                                         "Avancement_PROD")
                    /\ IsMeanTo3Decimals(breakdown[f].TEMPS_UNITAIRE_HISTORIQUE, df,
                                         rows(f), "TEMPS_UNITAIRE_HISTORIQUE")

\* an overview over an active order without category, an active order of
\* FAM1 and a historical order of FAM1 with unit time 10 / 3: the sentinel
\* group counts one row, FAM1 two, with mean unit time 3.333
C23_Witness ==
    /\ call.op = "get_overview_dashboard"
    /\ ~result.raised
    /\ Len(result.df) = 3
    /\ \E j \in 1..Len(ofda) : ofda[j].CATEGORIE = NONE
    /\ DOMAIN result.response.family_breakdown = {"FAM1", "Non définie"}
    /\ result.response.family_breakdown["Non définie"].NUMERO_OFDA = 1
    /\ result.response.family_breakdown["FAM1"].NUMERO_OFDA = 2
    /\ result.response.family_breakdown["FAM1"].TEMPS_UNITAIRE_HISTORIQUE = <<3333, 1000>>

\* the notifications of a type reported as sent for an order, over all days
RECURSIVE Copies(_, _, _)
Copies(type, order_id, keys) ==
    IF keys = {} THEN 0
    ELSE LET k == CHOOSE x \in keys : TRUE
         IN  (IF k[1] = type /\ k[2] = order_id THEN emails[k] ELSE 0)
             + Copies(type, order_id, keys \ {k})

\* C30: over any sequence of notification check runs on one service, with no
\* cleanup in between, no notification of a type is sent twice for the same
\* order: at most once per order and day for overdue and urgent
\* notifications, at most once per order for completion notifications.
C30_NoDuplicateNotification ==
    ~cleaned =>
        \A k \in DOMAIN emails :
            /\ k[1] \in {"overdue", "urgent"} => emails[k] <= 1
            /\ k[1] = "completion" => Copies("completion", k[2], DOMAIN emails) <= 1

\* the third day: an overdue notification for F1000 was recorded and sent
\* today, an urgent one was sent on two days, a completion notification for
\* F2 was sent on an earlier day and F2 is still inside the completion window
C30_Witness ==
    /\ ~cleaned
    /\ now = 3
    /\ <<"overdue", "F1000", 3>> \in DOMAIN emails
    /\ <<"urgent", "F1000", 2>> \in DOMAIN emails
    /\ <<"urgent", "F1000", 3>> \in DOMAIN emails
    /\ <<"completion", "F2", 2>> \in DOMAIN emails
    /\ <<"completion", "F2", 0>> \in DOMAIN sent_notifications
    /\ \E j \in 1..Len(histo) :
          histo[j].NUMERO_OFDA = "F2" /\ histo[j].LANCE_LE >= now - CompletionWindow

\* C28: every execute_query call ends without raising after at most one
\* read through the SQLAlchemy engine, at most two reads through the pyodbc
\* connection and at most two _connect calls, and returns an empty table when
\* none of its reads succeeded.
C28_BoundedAttempts ==
    \A t \in DOMAIN threads :
        LET th == threads[t]
        IN  /\ th.engine_reads <= 1
            /\ th.reads <= 2
            /\ th.connects <= 2
            /\ th.pc \in {"idle", "engine", "connection", "connected", "read",
                          "recover", "recovered", "fetched", "fabricate", "done"}
            /\ (th.pc \in {"fetched", "fabricate", "done"} /\ ~th.ok) => th.rows = <<>>

\* a call that found no connection, made two _connect calls and two pyodbc
\* reads and failed
C28_Witness ==
    \E t \in DOMAIN threads :
        /\ threads[t].pc = "fetched"
        /\ ~threads[t].ok
        /\ threads[t].rows = <<>>
        /\ threads[t].reads = 2
        /\ threads[t].connects = 2

\* C29: when the database is reachable at the call of execute_query (and
\* stays so during the call), the call returns the rows of the query,
\* whatever the connection and the engine were left as by earlier failures.
C29_Recovery ==
    \A t \in DOMAIN threads :
        LET th == threads[t]
        IN  (th.pc \in {"fetched", "fabricate", "done"} /\ th.reachable) =>
                (th.ok /\ th.rows = OfDataQuery(ThreadArgs))

\* a call that met a stale connection and no engine, reconnected and read the
\* rows of a non-empty table in its second read
C29_Witness ==
    \E t \in DOMAIN threads :
        /\ threads[t].pc = "fetched"
        /\ threads[t].reachable
        /\ threads[t].ok
        /\ threads[t].rows # <<>>
        /\ threads[t].reads = 2
        /\ threads[t].connects = 1

\* the frames get_of_data can return in a sequential execution to a request
\* whose query went as th's did, on an analyzer whose flag is created
SequentialFrames(th, created) ==
    { get_of_data(ThreadArgs, [ok |-> th.ok], created, draws).df :
         draws \in SampleFrames }

\* _sample_data_created after that request
SequentialFlag(th, created) ==
    get_of_data(ThreadArgs, [ok |-> th.ok], created,
                CHOOSE d \in SampleFrames : TRUE).sample_data_created

\* C21: two get_of_data calls running at the same time on the shared
\* analyzer return what they would return in some sequential execution of
\* the two calls (one in which their queries go as they went).
C21_Serializable ==
    \A x, y \in DOMAIN threads :
        (x # y /\ threads[x].pc = "done" /\ threads[y].pc = "done") =>
            LET created == threads[x].created_at_call /\ threads[y].created_at_call
            IN  \E first \in {x, y} :
                  LET second == CHOOSE z \in {x, y} : z # first
                  IN  /\ threads[first].df \in SequentialFrames(threads[first], created)
                      /\ threads[second].df \in
                            SequentialFrames(threads[second],
                                             SequentialFlag(threads[first], created))

====
